---- MODULE Spec2Model ----
(***************************************************************************)
(* AetherWatch: the aviation fallback chain (data_sources/aviation.py),    *)
(* the TTL cache it uses (utils/cache.py), the aviation anomaly rule, the  *)
(* alert dispatcher (utils/alerts.py) and the call sites that connect them *)
(* (app.py, ui/camera_grid.py).                                            *)
(***************************************************************************)
EXTENDS Integers, Sequences, FiniteSets, TLC

VARIABLES
    FORCE_MOCK_DATA,   \* config/settings.py: the force-simulated flag
    FR24_API_TOKEN,    \* config/settings.py: TRUE iff a FlightRadar24 token is set
    now,               \* the clock the cache reads (seconds)
    aviation_cache,    \* utils/cache.py aviation_cache: entries in LRU order
    lastFetch,         \* the current (or last) fetch_aircraft call
    SMTP_USER,         \* config/settings.py: TRUE iff the email channel is configured
    TWILIO_ACCOUNT_SID, \* config/settings.py: TRUE iff the SMS channel is configured
    in_memory_log,     \* utils/alerts.py _in_memory_log
    seq,               \* number of AlertRecords created so far
    clearedAt,         \* history: the value of seq at the last clear_alerts
    lastAlert,         \* observation of the last utils/alerts.py call
    lastApp,           \* observation of the last app.py get_aircraft_data call
    batch,             \* input of check_aviation_anomalies
    anomalies,         \* [done, out]: the output of check_aviation_anomalies(batch)
    detector,          \* vision/detector.py: the YOLODetector instance
    lastDetect,        \* observation of the last detector call
    lastCache,         \* observation of the last utils/cache.py call
    parse,             \* one provider response and what its parser made of it
    camera,            \* observation of the last data_sources/cameras.py call
    satellite,         \* observation of the last data_sources/satellite.py call
    loaders,           \* YOLODetector._instance and the threads in get_instance
    writers,           \* the threads in dispatch_alert and get_recent_alerts
    fetchers           \* a SafeTTLCache and the threads in get_or_fetch

vars == <<FORCE_MOCK_DATA, FR24_API_TOKEN, now, aviation_cache, lastFetch,
          SMTP_USER, TWILIO_ACCOUNT_SID, in_memory_log, seq, clearedAt, lastAlert,
          lastApp, batch, anomalies, detector, lastDetect, lastCache, parse, camera,
          satellite, loaders, writers, fetchers>>

avVars == <<FORCE_MOCK_DATA, FR24_API_TOKEN, now, aviation_cache, lastFetch>>
alVars == <<SMTP_USER, TWILIO_ACCOUNT_SID, in_memory_log, seq, clearedAt, lastAlert>>
apVars == <<lastApp>>
anVars == <<batch, anomalies>>
dtVars == <<detector, lastDetect>>
ccVars == <<lastCache>>
paVars == <<parse>>
cmVars == <<camera>>
s3Vars == <<satellite, loaders, writers, fetchers>>
exVars == <<dtVars, ccVars, paVars, cmVars, s3Vars>>

-----------------------------------------------------------------------------
(* Bounds of the model *)

MaxTime == 16
NumBBox == 2
MaxBatch == 1
MaxDispatch == 102
MaxChannelDispatch == 3
MaxAnomalyBatch == 2
MaxBoxes == 2
MaxParseBatch == 2
NumCameras == 2
MaxFails == 2
MaxChunks == 2
MaxChunkBytes == 2
MaxMjpegBytes == 3
MaxGrabChunks == 3
MaxRun == 6
MaxSatelliteCalls == 2
NumLoaderThreads == 2
MaxLoaderCalls == 2
NumWriterThreads == 2
MaxWriterCalls == 2
NumFetcherThreads == 2
MaxFetcherCalls == 2
MaxFetcherTime == 3
NumCacheKeys == 3
CacheTestMaxsize == 2
CacheTestTtl == 2
MaxCacheTime == 4
MaxPersons == 11
MaxVehicles == 7

(* Program constants *)

AVIATION_TTL == 15
AVIATION_MAXSIZE == 10
MOCK_COUNT == 500
ADSB_LIMIT == 500
RESULT_LIMIT == 500
MAX_LOG_SIZE == 100
DEFAULT_LIMIT == 50

-----------------------------------------------------------------------------
(* Squawk codes are text: sequences of characters. *)

S7700 == <<"7", "7", "0", "0">>
S7600 == <<"7", "6", "0", "0">>
S7500 == <<"7", "5", "0", "0">>
S1200 == <<"1", "2", "0", "0">>
SENTINEL == <<"-", "-", "-", "-">>

Min(a, b) == IF a < b THEN a ELSE b
Max(a, b) == IF a > b THEN a ELSE b

\* Python slices s[:n] and s[-n:] for n >= 0 (note s[-0:] is s[0:], the whole list)
Take(s, n) == SubSeq(s, 1, Min(n, Len(s)))
LastSlice(s, n) == IF n = 0 THEN s ELSE SubSeq(s, Max(1, Len(s) - n + 1), Len(s))

RECURSIVE Reverse(_)
Reverse(s) == IF s = <<>> THEN <<>> ELSE Append(Reverse(Tail(s)), Head(s))

-----------------------------------------------------------------------------
(* TTL cache: cachetools.TTLCache behind SafeTTLCache.  An entry is        *)
(* [key, value, expires]; the sequence is in LRU order, least recent first. *)

CacheExpire(c, t) == SelectSeq(c, LAMBDA e : t < e.expires)

\* variant for C16: an entry never expires for a lookup
CacheHasForever(c, k, t) == \E i \in 1..Len(c) : c[i].key = k

CacheHas(c, k, t) == \E i \in 1..Len(c) : c[i].key = k /\ t < c[i].expires

CacheIndex(c, k) == CHOOSE i \in 1..Len(c) : c[i].key = k

\* SafeTTLCache.get: [hit, value, cache]; a hit moves the entry to the recent end
CacheGet(c, k, t) ==
    IF CacheHas(c, k, t)
    THEN LET i == CacheIndex(c, k)
         IN [hit |-> TRUE, value |-> c[i].value,
             cache |-> Append(SelectSeq(c, LAMBDA e : e.key # k), c[i])]
    ELSE [hit |-> FALSE, value |-> <<>>, cache |-> c]

\* SafeTTLCache.set: expire, evict the least recently used if full, store
CacheSet(c, maxsize, ttl, k, v, t) ==
    LET live == CacheExpire(c, t)
        present == \E i \in 1..Len(live) : live[i].key = k
        rest == SelectSeq(live, LAMBDA e : e.key # k)
        room == IF ~present /\ Len(live) + 1 > maxsize THEN Tail(live) ELSE rest
    IN Append(room, [key |-> k, value |-> v, expires |-> t + ttl])

\* SafeTTLCache.invalidate: pop(key, None)
CacheInvalidate(c, k) == SelectSeq(c, LAMBDA e : e.key # k)

\* SafeTTLCache.clear
CacheClear(c) == <<>>

-----------------------------------------------------------------------------
(* Provider responses.  A response is [status, body]; a body is a list of  *)
(* raw records [kind]:                                                     *)
(*   "air"    well-formed, airborne, no squawk set                         *)
(*   "emerg"  well-formed, airborne, squawking 7700                        *)
(*   "ground" well-formed, on the ground                                   *)
(*   "nopos"  position fields null                                         *)
(*   "bad"    a non-numeric value in the altitude field                    *)
(* A record's identity (icao24) is its index in the body.                  *)

Kinds == {"air", "emerg", "ground", "nopos", "bad"}
RawRecords == [kind : Kinds]

Bodies == UNION {[1..n -> RawRecords] : n \in 0..MaxBatch}

Responses ==
    [status : {"ok"}, body : Bodies] \cup [status : {"error", "timeout"}, body : {<<>>}]

\* the common dict shape; latitude and longitude are <<>> (None) or <<degrees>>
Dict(i, call, sq, pos, ground, mock) ==
    [icao24 |-> i, callsign |-> call, squawk |-> sq,
     latitude |-> pos, longitude |-> pos, on_ground |-> ground, is_mock |-> mock]

RawSquawk(raw) == IF raw.kind = "emerg" THEN S7700 ELSE SENTINEL

\* the position a raw record carries: record i lies at (i, i) degrees
\* a record of kind "far" reports a latitude beyond the pole
FAR_LATITUDE == 91

RawPos(i, raw) ==
    IF raw.kind = "nopos" THEN <<>>
    ELSE IF raw.kind = "far" THEN <<FAR_LATITUDE>>
    ELSE <<i>>

Indexed(body) == [i \in 1..Len(body) |-> [i |-> i, raw |-> body[i]]]

\* _parse_opensky_state: None for a state without position
OpenSkyIsNone(raw) == raw.kind = "nopos"

\* arithmetic on a non-numeric field raises (TypeError / ValueError)
ParseRaises(raw) == raw.kind = "bad"

_parse_opensky_state(i, raw) ==
    Dict(i, "UNKNOWN", RawSquawk(raw), RawPos(i, raw), raw.kind = "ground", FALSE)

\* the try block of fetch_opensky completed: no request error, no exception
OpenSkyOk(os) ==
    /\ os.status = "ok"
    /\ \A i \in 1..Len(os.body) : OpenSkyIsNone(os.body[i]) \/ ~ParseRaises(os.body[i])

\* parsed states, airborne only
OpenSkyAircraft(body) ==
    LET kept == SelectSeq(Indexed(body),
                    LAMBDA x : ~OpenSkyIsNone(x.raw) /\ x.raw.kind # "ground")
    IN [j \in 1..Len(kept) |-> _parse_opensky_state(kept[j].i, kept[j].raw)]

\* adsb.fi: skipped when lat or lon is falsy
AdsbSkipped(raw) == raw.kind = "nopos"

\* adsb.fi: float() of a non-numeric altitude raises, and so does
\* float("ground"), the altitude the feed reports for an aircraft on the ground
AdsbRaises(raw) == raw.kind \in {"bad", "ground"}

AdsbScanned(body) == Take(body, ADSB_LIMIT)

AdsbOk(ad) ==
    /\ ad.status = "ok"
    /\ LET scanned == AdsbScanned(ad.body)
       IN \A i \in 1..Len(scanned) : AdsbSkipped(scanned[i]) \/ ~AdsbRaises(scanned[i])

AdsbAircraft(body) ==
    LET kept == SelectSeq(Indexed(AdsbScanned(body)), LAMBDA x : ~AdsbSkipped(x.raw))
    IN [j \in 1..Len(kept) |->
            Dict(kept[j].i, "UNKNOWN", RawSquawk(kept[j].raw), RawPos(kept[j].i, kept[j].raw),
                 kept[j].raw.kind = "ground", FALSE)]

\* generate_mock_aircraft(count): count records, all is_mock, airborne; the
\* squawk is random in 0000..7777: rnd names the record that drew 7700 (0: none)
MockSeeds == {0, 1}
generate_mock_aircraft(count, rnd) ==
    [i \in 1..count |->
        Dict(i, "MOCK", IF i = rnd THEN S7700 ELSE S1200, <<i % 85>>, FALSE, TRUE)]

\* one entry of a call's trace: a source and what it gave
Step(src, outcome) == [src |-> src, outcome |-> outcome]

Outcome(ok, list) == IF ~ok THEN "fail" ELSE IF list = <<>> THEN "empty" ELSE "data"

\* fetch_fr24: [] without a token, [] on any exception, else every flight
Fr24Ok(fr) ==
    /\ fr.status = "ok"
    /\ \A i \in 1..Len(fr.body) : ~ParseRaises(fr.body[i])

Fr24Flights(body) ==
    [i \in 1..Len(body) |->
        Dict(i, "UNKNOWN", RawSquawk(body[i]), RawPos(i, body[i]),
             body[i].kind = "ground", FALSE)]

fetch_fr24(token, fr) ==
    IF ~token THEN <<>>
    ELSE IF ~Fr24Ok(fr) THEN <<>>
    ELSE Fr24Flights(fr.body)

\* variant for C2: get_aircraft goes on to fetch_opensky whatever FR24 returned
Fr24AcceptedNever(result) == FALSE

\* the truth test on fetch_fr24's result in get_aircraft
Fr24Accepted(result) == result # <<>>

\* the truth test on the adsb.fi list in fetch_opensky
AdsbAccepted(aircraft) == aircraft # <<>>

\* class Aircraft: the constructor's conversions
OrZero(opt) == IF opt = <<>> THEN 0 ELSE opt[1]

\* variant for C3: the constructor inverts the is_mock flag
AircraftFlagInverted(data) ==
    [icao24 |-> data.icao24, callsign |-> data.callsign, squawk |-> data.squawk,
     latitude |-> OrZero(data.latitude), longitude |-> OrZero(data.longitude),
     on_ground |-> (data.on_ground = TRUE), is_mock |-> ~(data.is_mock = TRUE)]

Aircraft(data) ==
    [icao24 |-> data.icao24, callsign |-> data.callsign, squawk |-> data.squawk,
     latitude |-> OrZero(data.latitude), longitude |-> OrZero(data.longitude),
     on_ground |-> (data.on_ground = TRUE), is_mock |-> (data.is_mock = TRUE)]

\* fetch_aircraft: the first RESULT_LIMIT dicts as Aircraft objects, and is_live
AircraftList(raw) ==
    LET cut == Take(raw, RESULT_LIMIT)
    IN [i \in 1..Len(cut) |-> Aircraft(cut[i])]

IsLive(aircraft) == \E i \in 1..Len(aircraft) : ~aircraft[i].is_mock

-----------------------------------------------------------------------------
(* Aviation anomaly rule *)

\* variant for C10: the hijack code is missing from the set
EMERGENCY_SQUAWKS_NO_7500 == {S7700, S7600}

EMERGENCY_SQUAWKS == {S7700, S7600, S7500}

\* SQUAWK_LABELS.get(squawk, "Emergency")
SQUAWK_LABELS(squawk) ==
    IF squawk = S7700 THEN "General Emergency"
    ELSE IF squawk = S7600 THEN "Radio Failure"
    ELSE IF squawk = S7500 THEN "Hijacking"
    ELSE "Emergency"

IsSpace(ch) == ch = " "

\* str.strip(): drop leading and trailing whitespace
RECURSIVE LStrip(_)
LStrip(s) == IF s # <<>> /\ IsSpace(Head(s)) THEN LStrip(Tail(s)) ELSE s

Strip(s) == Reverse(LStrip(Reverse(LStrip(s))))

\* the squawk test of check_aviation_anomalies
IsEmergency(ac) == Strip(ac.squawk) \in EMERGENCY_SQUAWKS

\* the dict appended for a matching aircraft
AnomalyOf(ac) ==
    [icao24 |-> ac.icao24, callsign |-> ac.callsign, squawk |-> Strip(ac.squawk),
     label |-> SQUAWK_LABELS(Strip(ac.squawk)),
     latitude |-> ac.latitude, longitude |-> ac.longitude]

check_aviation_anomalies(aircraft) ==
    LET hits == SelectSeq(aircraft, IsEmergency)
    IN [i \in 1..Len(hits) |-> AnomalyOf(hits[i])]

-----------------------------------------------------------------------------
(* Object detector (vision/detector.py) *)

\* config/settings.py: the names the module defines that the detector could read
Settings ==
    [YOLO_MODEL |-> "yolov8n.pt", YOLO_CONFIDENCE |-> 35, YOLO_INPUT_SIZE |-> 640,
     ANOMALY_VEHICLE_CLUSTER_MIN |-> 6, ANOMALY_PERSON_CLUSTER_MIN |-> 10,
     ANOMALY_LOW_ALTITUDE_FT |-> 3000, ANOMALY_HIGH_SPEED_KTS |-> 600,
     YOLO_MODEL_NAME |-> "yolov8n.pt"]

\* settings.NAME raises AttributeError when the module has no such attribute
LookupRaises(name) == name \notin DOMAIN Settings

\* the settings detect reads to build the arguments of the model call
InferenceSettings == {"YOLO_CONFIDENCE", "YOLO_IOU_THRESHOLD", "YOLO_IMG_SIZE"}

\* an image: its size and what has been drawn on it
Image(w, h) == [size |-> <<w, h>>, drawn |-> <<>>]

Draw(image, mark) == [image EXCEPT !.drawn = Append(@, mark)]

\* Detection(class_id, class_name, confidence, bbox)
Detection(class_name, confidence, bbox) ==
    [class_name |-> class_name, confidence |-> confidence, bbox |-> bbox]

\* int(v) of a non-negative coordinate given in tenths of a pixel
IntOf(v) == v \div 10

\* the decoding loop of detect: one Detection per raw box
Decode(boxes) ==
    [i \in 1..Len(boxes) |->
        Detection(boxes[i].cls, boxes[i].conf,
                  <<IntOf(boxes[i].xyxy[1]), IntOf(boxes[i].xyxy[2]),
                    IntOf(boxes[i].xyxy[3]), IntOf(boxes[i].xyxy[4])>>)]

CountOf(detections, classes) ==
    Cardinality({i \in 1..Len(detections) : detections[i].class_name \in classes})

VehicleClasses == {"car", "truck", "bus", "motorcycle"}

BoxArea(d) == (d.bbox[3] - d.bbox[1]) * (d.bbox[4] - d.bbox[2])

\* box_area / img_area > 0.05
LargeInFrame(d, img_size) == 20 * BoxArea(d) > img_size[1] * img_size[2]

\* _check_anomalies(detections, img_size): [raised, anomalies]
_check_anomalies(detections, img_size) ==
    LET persons == CountOf(detections, {"person"})
        vehicles == CountOf(detections, VehicleClasses)
        planes == SelectSeq(detections,
                            LAMBDA d : d.class_name = "airplane" /\ LargeInFrame(d, img_size))
    IN IF LookupRaises("ANOMALY_CROWD_THRESHOLD")
       THEN [raised |-> TRUE, anomalies |-> <<>>]
       ELSE IF LookupRaises("ANOMALY_VEHICLE_CLUSTER")
       THEN [raised |-> TRUE, anomalies |-> <<>>]
       ELSE [raised |-> FALSE,
             anomalies |->
                (IF persons >= Settings["ANOMALY_CROWD_THRESHOLD"]
                 THEN <<[kind |-> "crowd", n |-> persons]>> ELSE <<>>)
                \o (IF vehicles >= Settings["ANOMALY_VEHICLE_CLUSTER"]
                    THEN <<[kind |-> "vehicles", n |-> vehicles]>> ELSE <<>>)
                \o [i \in 1..Len(planes) |-> [kind |-> "aircraft", n |-> 1]]]

\* DetectionResult(detections, annotated_image, inference_ms, anomalies, is_live)
DetectionResult(detections, annotated_image, timed, found, is_live) ==
    [detections |-> detections, annotated_image |-> annotated_image,
     inference_ms |-> IF timed THEN "elapsed" ELSE "zero",
     anomalies |-> found, is_live |-> is_live]

\* _draw_detections(image, detections): boxes, labels and the stats bar
_draw_detections(image, detections) ==
    LET boxed == [drawn |-> image.drawn \o [i \in 1..Len(detections) |-> "box"],
                  size |-> image.size]
    IN IF detections # <<>> THEN Draw(boxed, "stats") ELSE boxed

\* variant for C12: the passthrough result is flagged live
_passthrough_result_live(image, is_loaded) ==
    LET status == IF ~is_loaded THEN "YOLO not loaded" ELSE "Detection disabled"
        marked == Draw(Draw(image, "bar"), status)
    IN [image |-> marked,
        result |-> DetectionResult(<<>>, marked, FALSE, <<>>, TRUE),
        same_object |-> TRUE]

\* _passthrough_result(image): draws the status bar on the image it is given
\* and returns that same object as annotated_image
_passthrough_result(image, is_loaded) ==
    LET status == IF ~is_loaded THEN "YOLO not loaded" ELSE "Detection disabled"
        marked == Draw(Draw(image, "bar"), status)
    IN [image |-> marked,
        result |-> DetectionResult(<<>>, marked, FALSE, <<>>, FALSE),
        same_object |-> TRUE]

\* detect(image, camera_id) against a model that answers run:
\* [image, result, same_object, cause, cached], image being the caller's object
\* after the call and cause the reason for a passthrough
detect(det, image, run) ==
    LET pass(cause) == [image |-> _passthrough_result(image, det.is_loaded).image,
                        result |-> _passthrough_result(image, det.is_loaded).result,
                        same_object |-> TRUE, cause |-> cause, cached |-> FALSE]
        detections == Decode(run.boxes)
        checked == _check_anomalies(detections, image.size)
    IN IF ~det.is_loaded \/ det.model = "none" THEN pass("not_loaded")
       ELSE IF \E name \in InferenceSettings : LookupRaises(name) THEN pass("settings")
       ELSE IF run.status = "throws" THEN pass("model")
       ELSE IF checked.raised THEN pass("anomalies")
       ELSE [image |-> image,
             result |-> DetectionResult(detections, _draw_detections(image, detections),
                                        TRUE, checked.anomalies, TRUE),
             same_object |-> FALSE, cause |-> "none", cached |-> TRUE]

-----------------------------------------------------------------------------
(* Alert dispatcher *)

INFO == "INFO"
WARNING == "WARNING"
CRITICAL == "CRITICAL"
ANOMALY == "ANOMALY"
Levels == {INFO, WARNING, CRITICAL, ANOMALY}

\* AlertRecord: id is the creation order, standing for the object and its timestamp
AlertRecord(id, level, source, message) ==
    [id |-> id, level |-> level, source |-> source, message |-> message]

\* the logger method dispatch_alert picks for a level
LogFn(level) ==
    IF level \in {WARNING, ANOMALY} THEN "warning"
    ELSE IF level = CRITICAL THEN "error" ELSE "info"

\* variant for C8: the SMTP exchange runs outside any try, its error propagates
_send_email_uncaught(smtp) ==
    IF smtp = "sent"
    THEN [raised |-> FALSE, events |-> <<"email:sent", "log:info">>]
    ELSE [raised |-> TRUE, events |-> <<"email:failed">>]

\* _send_email: the SMTP exchange runs inside try/except Exception
_send_email(smtp) ==
    IF smtp = "sent"
    THEN [raised |-> FALSE, events |-> <<"email:sent", "log:info">>]
    ELSE [raised |-> FALSE, events |-> <<"email:failed", "log:error">>]

\* _send_sms: a placeholder body (one log call) inside try/except Exception
_send_sms(sms) ==
    IF sms = "sent"
    THEN [raised |-> FALSE, events |-> <<"sms:placeholder", "log:info">>]
    ELSE [raised |-> FALSE, events |-> <<"sms:failed", "log:error">>]

\* variant for C6: the trim drops the newest record, pop() for pop(0)
AppendTrimNewest(log, record) ==
    LET appended == Append(log, record)
    IN IF Len(appended) > MAX_LOG_SIZE
       THEN SubSeq(appended, 1, Len(appended) - 1) ELSE appended

\* the append + trim of dispatch_alert
AppendTrim(log, record) ==
    LET appended == Append(log, record)
    IN IF Len(appended) > MAX_LOG_SIZE THEN Tail(appended) ELSE appended

NoChannel == [raised |-> FALSE, events |-> <<>>]

\* variant for C24: a requested channel is used whether configured or not
ChannelOnRequested(requested, configured) == requested

\* "if send_email and settings.SMTP_USER", "if send_sms and settings.TWILIO_ACCOUNT_SID"
ChannelOn(requested, configured) == requested /\ configured

\* dispatch_alert: [log, record, events, returned]
dispatch_alert(log, id, level, source, message, send_email, send_sms, cfg, smtp, sms) ==
    LET record == AlertRecord(id, level, source, message)
        email == IF ChannelOn(send_email, cfg.smtp_user) THEN _send_email(smtp)
                 ELSE NoChannel
        text == IF email.raised THEN NoChannel
                ELSE IF ChannelOn(send_sms, cfg.twilio_sid) THEN _send_sms(sms)
                ELSE NoChannel
    IN [log |-> AppendTrim(log, record),
        record |-> record,
        events |-> <<"log:" \o LogFn(level), "append">> \o email.events \o text.events,
        returned |-> ~email.raised /\ ~text.raised]

\* get_recent_alerts(limit)
get_recent_alerts(log, limit) == Reverse(LastSlice(log, limit))

\* clear_alerts
clear_alerts(log) == <<>>

-----------------------------------------------------------------------------
(* app.py get_aircraft_data: fetch, check, dispatch each anomaly *)

\* the keys the loop reads from each anomaly dict
DispatchKeys == {"level", "message"}

\* a["level"] / a["message"] raise KeyError when the dict has no such key
ReadRaises(a) == ~(DispatchKeys \subseteq DOMAIN a)

\* the loop over the anomalies: stops at the first KeyError
RECURSIVE DispatchLoop(_, _, _)
DispatchLoop(log, id, todo) ==
    IF todo = <<>> THEN [log |-> log, id |-> id, raised |-> FALSE]
    ELSE IF ReadRaises(Head(todo)) THEN [log |-> log, id |-> id, raised |-> TRUE]
    ELSE LET d == dispatch_alert(log, id + 1, Head(todo).level, "Aviation Anomaly",
                                 Head(todo).message, FALSE, FALSE,
                                 [smtp_user |-> SMTP_USER,
                                  twilio_sid |-> TWILIO_ACCOUNT_SID],
                                 "sent", "sent")
         IN DispatchLoop(d.log, id + 1, Tail(todo))

-----------------------------------------------------------------------------
(* State machine: the aviation pipeline.  One fetch_aircraft call runs at a *)
(* time; lastFetch is its activation record: pc says which provider the     *)
(* call is waiting for, and "done" that it has returned.  While a call     *)
(* for the bounding box of the call before it is in flight, aircraft still  *)
(* holds the list that earlier call returned.                               *)

BBoxes == 1..NumBBox
DefaultBBox == 1

NoFetch ==
    [pc |-> "idle", caller |-> "none", bbox |-> 0, since |-> 0,
     cached_before |-> FALSE, cache_hit |-> FALSE, trace |-> <<>>,
     aircraft |-> <<>>, is_live |-> FALSE, prior_fresh |-> FALSE]

NoAlert ==
    [op |-> "none", id |-> 0, events |-> <<>>, returned |-> FALSE,
     limit |-> 0, recent |-> <<>>, send_email |-> FALSE, send_sms |-> FALSE]

NoApp == [called |-> FALSE, anomalies |-> <<>>, raised |-> FALSE]

NoDetector == [is_loaded |-> FALSE, model |-> "none", result_cache |-> FALSE]

NoDetect == [op |-> "none"]

CacheKeys == 1..NumCacheKeys

\* lastCache: a SafeTTLCache(maxsize, ttl) instance (cache), the last call on it
\* and the time of that call,
\* and two histories: stored[k] is <<>> or <<[at, value]>>, the last set of k
\* not yet invalidated or cleared; evicted holds the keys dropped for capacity
\* since their last set
NoCacheOp ==
    [op |-> "none", key |-> 0, time |-> 0, hit |-> FALSE, value |-> <<>>, cache |-> <<>>,
     stored |-> [k \in CacheKeys |-> <<>>], evicted |-> {}]

NoParse == [op |-> "none", provider |-> "none", body |-> <<>>, served |-> FALSE,
            aircraft |-> <<>>]

CamIds == 1..NumCameras

\* camera: _camera_status (per camera <<>> or <<[online, fail_count]>>),
\* _mock_state (the cameras with a simulated scene) and the last call
NoCamera ==
    [status |-> [c \in CamIds |-> <<>>], mock_state |-> {},
     streak |-> [c \in CamIds |-> 0],
     op |-> "none", cam |-> 0, response |-> [status |-> "none"],
     frame |-> "null", is_live |-> FALSE, logs |-> <<>>,
     raised |-> FALSE, jpeg_data |-> <<>>, bytes_read |-> 0, buffer |-> <<>>]

\* satellite: the _store of the cached(ttl) wrapper of fetch_region_image (a
\* function from regions to [img, is_live, fresh]), and the last call
NoSatellite ==
    [store |-> <<>>, calls |-> 0, op |-> "none", region |-> "none", hit |-> FALSE,
     request |-> <<>>, response |-> [status |-> "none"],
     img |-> "null", is_live |-> FALSE, raised |-> FALSE, alerted |-> FALSE]

LoaderThreads == 1..NumLoaderThreads

\* loaders: YOLODetector._instance (0 for None, else an index into objs),
\* YOLODetector._lock (0 when free, else its holder), the YOLODetector objects
\* created so far, the number of _load_model runs, and per thread the place in
\* get_instance, the object it is constructing, the instance it was given, and
\* whether it found under the lock an instance it had not seen outside it
NoLoaders ==
    [instance |-> 0, lock |-> 0, objs |-> <<>>, loads |-> 0,
     th |-> [t \in LoaderThreads |->
                [pc |-> "idle", obj |-> 0, got |-> 0, calls |-> 0, detects |-> 0,
                 raced |-> FALSE]]]

WriterThreads == 1..NumWriterThreads

\* writers: per thread the place in dispatch_alert and the record it created;
\* appended is a history, the ids in the order they were appended to the log
NoWriters ==
    [th |-> [t \in WriterThreads |-> [pc |-> "idle", id |-> 0, calls |-> 0]],
     appended |-> <<>>]

FetcherThreads == 1..NumFetcherThreads

\* the keys used with get_or_fetch: no more than the cache has room for
FetchKeys == 1..CacheTestMaxsize

NoFetcher ==
    [pc |-> "idle", key |-> 0, calls |-> 0, expect |-> <<>>, seen |-> <<>>,
     result |-> "null", fetched |-> 0, ret |-> "null"]

\* fetchers: a SafeTTLCache(maxsize, ttl): its _cache, its _lock (0 when free,
\* else the holder) and its clock; per thread the place in get_or_fetch, what
\* the lookup saw, the fetch result and the value returned; and three
\* histories: written[k] is <<>> or <<[value, at]>>, the last set of k,
\* expect is what written said of the key when the thread looked,
\* unguarded says that _cache was touched by a thread not holding _lock
NoFetchers ==
    [cache |-> <<>>, lock |-> 0, time |-> 0,
     th |-> [t \in FetcherThreads |-> NoFetcher],
     written |-> [k \in FetchKeys |-> <<>>], unguarded |-> FALSE]

InitAv ==
    /\ FORCE_MOCK_DATA \in BOOLEAN
    /\ FR24_API_TOKEN \in BOOLEAN
    /\ now = 0
    /\ aviation_cache = <<>>
    /\ lastFetch = NoFetch

InitAl ==
    /\ SMTP_USER = FALSE
    /\ TWILIO_ACCOUNT_SID = FALSE
    /\ in_memory_log = <<>>
    /\ seq = 0
    /\ clearedAt = 0
    /\ lastAlert = NoAlert

InitAp == lastApp = NoApp

InitAn == batch = <<>> /\ anomalies = [done |-> FALSE, out |-> <<>>]

InitDt == detector = NoDetector /\ lastDetect = NoDetect

InitCc == lastCache = NoCacheOp

InitPa == parse = NoParse

InitCm == camera = NoCamera

InitSa == satellite = NoSatellite

InitLo == loaders = NoLoaders

InitWr == writers = NoWriters

InitFe == fetchers = NoFetchers

InitS3 == InitSa /\ InitLo /\ InitWr /\ InitFe

InitEx == InitDt /\ InitCc /\ InitPa /\ InitCm /\ InitS3

Init == InitAv /\ InitAl /\ InitAp /\ InitAn /\ InitEx

Idle == lastFetch.pc \in {"idle", "done"}

\* the call goes on to wait for the next source
Continue(f, pc) ==
    /\ lastFetch' = [f EXCEPT !.pc = pc]
    /\ lastApp' = NoApp
    /\ UNCHANGED <<aviation_cache, alVars>>

\* get_aircraft returns raw: fetch_aircraft builds its pair, and when the caller
\* is app.py get_aircraft_data, that runs the anomaly check and the dispatch loop
Return(f, raw, hit, cache) ==
    LET aircraft == AircraftList(raw)
        found == check_aviation_anomalies(aircraft)
        loop == DispatchLoop(in_memory_log, seq, found)
    IN /\ aviation_cache' = cache
       /\ lastFetch' = [f EXCEPT !.pc = "done", !.aircraft = aircraft,
                                 !.is_live = IsLive(aircraft), !.cache_hit = hit,
                                 !.since = IF ~hit THEN now
                                           ELSE IF f.prior_fresh THEN f.since
                                           ELSE now - AVIATION_TTL]
       /\ IF f.caller = "app"
          THEN /\ in_memory_log' = loop.log
               /\ seq' = loop.id
               /\ lastApp' = [called |-> TRUE, anomalies |-> found, raised |-> loop.raised]
               /\ UNCHANGED <<SMTP_USER, TWILIO_ACCOUNT_SID, clearedAt, lastAlert>>
          ELSE lastApp' = NoApp /\ UNCHANGED alVars

\* the head of fetch_opensky: the cache lookup, then the force-mock test
EnterOpenSky(f) ==
    LET g == CacheGet(aviation_cache, f.bbox, now)
    IN IF g.hit THEN Return(f, g.value, TRUE, g.cache)
       ELSE IF FORCE_MOCK_DATA THEN Continue(f, "mock")
       ELSE Continue(f, "opensky")

\* a call begins: get_aircraft asks FR24 first when a token is set
Begin(b, caller) ==
    LET again == lastFetch.pc = "done" /\ lastFetch.bbox = b
        f == [pc |-> "idle", caller |-> caller, bbox |-> b,
              since |-> IF again THEN lastFetch.since ELSE 0,
              cached_before |-> CacheHas(aviation_cache, b, now),
              cache_hit |-> FALSE, trace |-> <<>>,
              aircraft |-> IF again THEN lastFetch.aircraft ELSE <<>>,
              is_live |-> FALSE,
              prior_fresh |-> again /\ now < lastFetch.since + AVIATION_TTL]
    IN /\ Idle
       /\ IF FR24_API_TOKEN THEN Continue(f, "fr24") ELSE EnterOpenSky(f)
       /\ UNCHANGED <<FORCE_MOCK_DATA, FR24_API_TOKEN, now, anVars, exVars>>

\* fetch_aircraft(bbox), called directly
FetchAircraft(b) == Begin(b, "direct")

\* app.py get_aircraft_data(): fetch_aircraft() with the default bounding box
GetAircraftData == Begin(DefaultBBox, "app")

\* fetch_fr24 gets its response
Fr24Responds ==
    /\ lastFetch.pc = "fr24"
    /\ \E fr \in Responses :
        LET result == fetch_fr24(FR24_API_TOKEN, fr)
            f == [lastFetch EXCEPT
                    !.trace = Append(@, Step("fr24", Outcome(Fr24Ok(fr), result)))]
        IN IF Fr24Accepted(result)
           THEN Return(f, result, FALSE, aviation_cache)
           ELSE EnterOpenSky(f)
    /\ UNCHANGED <<FORCE_MOCK_DATA, FR24_API_TOKEN, now, anVars, exVars>>

\* the OpenSky request of fetch_opensky gets its response
OpenSkyResponds ==
    /\ lastFetch.pc = "opensky"
    /\ \E os \in Responses :
        IF OpenSkyOk(os)
        THEN LET aircraft == OpenSkyAircraft(os.body)
             IN Return([lastFetch EXCEPT
                          !.trace = Append(@, Step("opensky", Outcome(TRUE, aircraft)))],
                       aircraft, FALSE,
                       CacheSet(aviation_cache, AVIATION_MAXSIZE, AVIATION_TTL,
                                lastFetch.bbox, aircraft, now))
        ELSE Continue([lastFetch EXCEPT !.trace = Append(@, Step("opensky", "fail"))],
                      "adsbfi")
    /\ UNCHANGED <<FORCE_MOCK_DATA, FR24_API_TOKEN, now, anVars, exVars>>

\* the adsb.fi request of fetch_opensky gets its response
AdsbResponds ==
    /\ lastFetch.pc = "adsbfi"
    /\ \E ad \in Responses :
        LET aircraft == IF AdsbOk(ad) THEN AdsbAircraft(ad.body) ELSE <<>>
            f == [lastFetch EXCEPT
                    !.trace = Append(@, Step("adsbfi", Outcome(AdsbOk(ad), aircraft)))]
        IN IF AdsbOk(ad) /\ AdsbAccepted(aircraft)
           THEN Return(f, aircraft, FALSE,
                       CacheSet(aviation_cache, AVIATION_MAXSIZE, AVIATION_TTL,
                                lastFetch.bbox, aircraft, now))
           ELSE Continue(f, "mock")
    /\ UNCHANGED <<FORCE_MOCK_DATA, FR24_API_TOKEN, now, anVars, exVars>>

\* fetch_opensky falls back on generate_mock_aircraft(500), caches and returns it
MockGenerated ==
    /\ lastFetch.pc = "mock"
    /\ \E rnd \in MockSeeds :
        LET mock == generate_mock_aircraft(MOCK_COUNT, rnd)
        IN Return([lastFetch EXCEPT !.trace = Append(@, Step("mock", "data"))],
                  mock, FALSE,
                  CacheSet(aviation_cache, AVIATION_MAXSIZE, AVIATION_TTL,
                           lastFetch.bbox, mock, now))
    /\ UNCHANGED <<FORCE_MOCK_DATA, FR24_API_TOKEN, now, anVars, exVars>>

\* time passes between calls
TickSteps == {AVIATION_TTL - 1, AVIATION_TTL}
Tick ==
    /\ Idle
    /\ \E dt \in TickSteps : now + dt <= MaxTime /\ now' = now + dt
    /\ UNCHANGED <<FORCE_MOCK_DATA, FR24_API_TOKEN, aviation_cache, lastFetch>>
    /\ UNCHANGED <<alVars, apVars, anVars, exVars>>

\* fetch_aircraft called for any bounding box
Next ==
    \/ Tick
    \/ \E b \in BBoxes : FetchAircraft(b)
    \/ Fr24Responds
    \/ OpenSkyResponds
    \/ AdsbResponds
    \/ MockGenerated

Spec == Init /\ [][Next]_vars

\* the dashboard's refresh: get_aircraft_data on every cycle
NextApp ==
    \/ Tick
    \/ GetAircraftData
    \/ Fr24Responds
    \/ OpenSkyResponds
    \/ AdsbResponds
    \/ MockGenerated

SpecApp == Init /\ [][NextApp]_vars

-----------------------------------------------------------------------------
(* Properties of the aviation pipeline *)

Done == lastFetch.pc = "done"

LiveSources == {"fr24", "opensky", "adsbfi"}

\* the priority of a source: 1 is tried first
SourceRank(src) ==
    IF src = "fr24" THEN 1
    ELSE IF src = "opensky" THEN 2
    ELSE IF src = "adsbfi" THEN 3
    ELSE 4

AllMock(aircraft) == \A i \in 1..Len(aircraft) : aircraft[i].is_mock

NoneMock(aircraft) == \A i \in 1..Len(aircraft) : ~aircraft[i].is_mock

\* C1: fetch_aircraft never returns an empty list, whatever the providers
\* answer and whatever the cache holds.
C1_NeverEmpty == Done => Len(lastFetch.aircraft) >= 1

C4_ForceMock ==
    (Done /\ FORCE_MOCK_DATA) =>
        /\ \A i \in 1..Len(lastFetch.trace) : lastFetch.trace[i].src \notin LiveSources
        /\ AllMock(lastFetch.aircraft)

\* C5: once a fetch_aircraft call for a bounding box has obtained its list
\* from a provider or the generator, every further call for that bounding box
\* within the cache TTL contacts no provider and returns the same list.
C5_CachedWithinTtl ==
    [][(/\ lastFetch'.pc = "done"
        /\ lastFetch' # lastFetch
        /\ lastFetch'.prior_fresh)
       => (/\ lastFetch'.trace = <<>>
           /\ lastFetch'.aircraft = lastFetch.aircraft)]_vars

\* C9: every anomaly check_aviation_anomalies produces in get_aircraft_data
\* is passed through dispatch_alert and ends up as an AlertRecord in the log.
C9_AnomaliesDispatched ==
    LET n == Len(lastApp.anomalies)
        m == Len(in_memory_log)
    IN lastApp.called =>
          /\ ~lastApp.raised
          /\ m >= n
          /\ \A j \in 1..m : j > m - n => in_memory_log[j].source = "Aviation Anomaly"

-----------------------------------------------------------------------------
(* State machine: the alert log.  The calls are made one at a time. *)

LevelOrder == <<INFO, WARNING, CRITICAL, ANOMALY>>

\* the level of the n-th alert: the callers' levels, taken in rotation
LevelOf(n) == LevelOrder[(n % Len(LevelOrder)) + 1]

Limits == {0, 1, DEFAULT_LIMIT, MAX_LOG_SIZE, MAX_LOG_SIZE + 1}

ChannelResults == {"sent", "failed"}

\* one dispatch_alert call and what it leaves behind
Dispatched(send_email, send_sms, smtp, sms) ==
    LET d == dispatch_alert(in_memory_log, seq + 1, LevelOf(seq + 1), "UI", "alert",
                            send_email, send_sms,
                            [smtp_user |-> SMTP_USER, twilio_sid |-> TWILIO_ACCOUNT_SID],
                            smtp, sms)
    IN /\ in_memory_log' = d.log
       /\ seq' = seq + 1
       /\ lastAlert' = [NoAlert EXCEPT !.op = "dispatch", !.id = d.record.id,
                                       !.events = d.events, !.returned = d.returned,
                                       !.send_email = send_email, !.send_sms = send_sms]
       /\ UNCHANGED <<SMTP_USER, TWILIO_ACCOUNT_SID, clearedAt>>
       /\ UNCHANGED <<avVars, apVars, anVars, exVars>>

\* dispatch_alert(level, source, message): no external channel requested
DispatchAlert ==
    /\ seq < MaxDispatch
    /\ Dispatched(FALSE, FALSE, "sent", "sent")

\* dispatch_alert(..., send_email, send_sms) with the channels answering
DispatchAlertChannels ==
    /\ seq < MaxChannelDispatch
    /\ \E send_email, send_sms \in BOOLEAN : \E smtp, sms \in ChannelResults :
          Dispatched(send_email, send_sms, smtp, sms)

GetRecentAlerts ==
    /\ \E limit \in Limits :
          lastAlert' = [NoAlert EXCEPT !.op = "get_recent", !.limit = limit,
                                       !.recent = get_recent_alerts(in_memory_log, limit)]
    /\ UNCHANGED <<SMTP_USER, TWILIO_ACCOUNT_SID, in_memory_log, seq, clearedAt>>
    /\ UNCHANGED <<avVars, apVars, anVars, exVars>>

ClearAlerts ==
    /\ in_memory_log' = clear_alerts(in_memory_log)
    /\ clearedAt' = seq
    /\ lastAlert' = [NoAlert EXCEPT !.op = "clear"]
    /\ UNCHANGED <<SMTP_USER, TWILIO_ACCOUNT_SID, seq>>
    /\ UNCHANGED <<avVars, apVars, anVars, exVars>>

NextAlerts == DispatchAlert \/ GetRecentAlerts \/ ClearAlerts

SpecAlerts == Init /\ [][NextAlerts]_vars

\* the channels: any configuration of the two channels
InitChannels ==
    /\ InitAv /\ InitAp /\ InitAn /\ InitEx
    /\ SMTP_USER \in BOOLEAN
    /\ TWILIO_ACCOUNT_SID \in BOOLEAN
    /\ in_memory_log = <<>>
    /\ seq = 0
    /\ clearedAt = 0
    /\ lastAlert = NoAlert

NextChannels == DispatchAlertChannels \/ GetRecentAlerts \/ ClearAlerts

SpecChannels == InitChannels /\ [][NextChannels]_vars

-----------------------------------------------------------------------------
(* check_aviation_anomalies on every small batch *)

S7777 == <<"7", "7", "7", "7">>
PADDED_7700 == <<" ", "7", "7", "0", "0">>
PADDED_7500 == <<"7", "5", "0", "0", " ">>

Squawks == {S7700, S7600, S7500, S1200, S7777, SENTINEL, PADDED_7700, PADDED_7500}

Callsigns == <<"AWX101", "UNKNOWN", "BAW7">>

\* the i-th aircraft of a batch, squawking sq
BatchAircraft(i, sq) ==
    Aircraft(Dict(i, Callsigns[(i % Len(Callsigns)) + 1], sq, <<i>>, FALSE, FALSE))

Batches ==
    UNION {{[i \in 1..n |-> BatchAircraft(i, sqs[i])] : sqs \in [1..n -> Squawks]} :
           n \in 0..MaxAnomalyBatch}

InitAnomalies ==
    /\ InitAv /\ InitAl /\ InitAp /\ InitEx
    /\ batch \in Batches
    /\ anomalies = [done |-> FALSE, out |-> <<>>]

CheckAviationAnomalies ==
    /\ ~anomalies.done
    /\ anomalies' = [done |-> TRUE, out |-> check_aviation_anomalies(batch)]
    /\ UNCHANGED <<batch, avVars, alVars, apVars, exVars>>

NextAnomalies == CheckAviationAnomalies

SpecAnomalies == InitAnomalies /\ [][NextAnomalies]_vars

-----------------------------------------------------------------------------
(* Properties of the alert log *)

C7_RecentExactly ==
    LET r == lastAlert.recent
        m == Len(in_memory_log)
        k == IF lastAlert.limit < m THEN lastAlert.limit ELSE m
    IN lastAlert.op = "get_recent" =>
          /\ Len(r) = k
          /\ \A j \in 1..Len(r) : r[j] = in_memory_log[m - j + 1]

ChannelEvents == {"email:sent", "email:failed", "sms:placeholder", "sms:failed"}

\* C8: dispatch_alert never fails because of a channel: a failing send is
\* caught and logged, dispatch_alert returns the record, and the record was
\* appended to the log before any channel was attempted.
C8_ChannelFailuresContained ==
    LET E == lastAlert.events
    IN lastAlert.op = "dispatch" =>
          /\ lastAlert.returned
          /\ in_memory_log # <<>>
          /\ in_memory_log[Len(in_memory_log)].id = lastAlert.id
          /\ \A i \in 1..Len(E) : E[i] \in ChannelEvents =>
                \E a \in 1..(i - 1) : E[a] = "append"
          /\ \A i \in 1..Len(E) : E[i] \in {"email:failed", "sms:failed"} =>
                (i < Len(E) /\ E[i + 1] = "log:error")

\* C8 witness: both channels were requested and configured, and both sends failed
C8_Witness ==
    /\ lastAlert.op = "dispatch"
    /\ \E i \in 1..Len(lastAlert.events) : lastAlert.events[i] = "email:failed"
    /\ \E i \in 1..Len(lastAlert.events) : lastAlert.events[i] = "sms:failed"

-----------------------------------------------------------------------------
(* Properties of the aviation anomaly rule *)

\* the batch positions whose squawk, surrounding blanks apart, is an emergency code
Matching ==
    {i \in 1..Len(batch) : Strip(batch[i].squawk) \in {S7700, S7600, S7500}}

\* the k-th matching position, in batch order
KthMatching(k) == CHOOSE i \in Matching : Cardinality({j \in Matching : j <= i}) = k

LabelTable(sq) ==
    IF sq = S7700 THEN "General Emergency"
    ELSE IF sq = S7600 THEN "Radio Failure"
    ELSE "Hijacking"

\* C10: check_aviation_anomalies returns exactly one record per aircraft
\* whose squawk is 7700, 7600 or 7500, in batch order, with that aircraft's
\* icao24, callsign, squawk and position and the label of the fixed table;
\* an aircraft with any other squawk (the sentinel "----" too) gives none.
C10_OneRecordPerEmergency ==
    anomalies.done =>
        /\ Len(anomalies.out) = Cardinality(Matching)
        /\ \A k \in 1..Len(anomalies.out) :
              LET ac == batch[KthMatching(k)]
                  rec == anomalies.out[k]
              IN /\ rec.icao24 = ac.icao24
                 /\ rec.callsign = ac.callsign
                 /\ rec.squawk = Strip(ac.squawk)
                 /\ rec.latitude = ac.latitude
                 /\ rec.longitude = ac.longitude
                 /\ rec.label = LabelTable(rec.squawk)

\* C10 witness: a hijack code after a sentinel squawk gives one record, the second aircraft's
C10_Witness ==
    /\ anomalies.done
    /\ Len(batch) = 2
    /\ batch[1].squawk = SENTINEL
    /\ batch[2].squawk = S7500
    /\ Len(anomalies.out) = 1
    /\ anomalies.out[1].icao24 = batch[2].icao24

\* C11: every record the aviation anomaly check emits carries a severity
\* level equal to CRITICAL and a message, the two fields the call site in
\* get_aircraft_data reads when it forwards the record to dispatch_alert.
C11_RecordsCarryLevelAndMessage ==
    anomalies.done =>
        \A k \in 1..Len(anomalies.out) :
            /\ DispatchKeys \subseteq DOMAIN anomalies.out[k]
            /\ anomalies.out[k].level = CRITICAL

-----------------------------------------------------------------------------
(* State machine: the detector.  detect is called on frames of the caller. *)

\* YOLODetector after __init__: ultralytics missing or YOLO() failed, the
\* warm-up call failed, or the model is loaded
Detectors ==
    {[is_loaded |-> FALSE, model |-> "none", result_cache |-> FALSE],
     [is_loaded |-> FALSE, model |-> "yolo", result_cache |-> FALSE],
     [is_loaded |-> TRUE, model |-> "yolo", result_cache |-> FALSE]}

Frames == {Image(100, 100), Image(200, 100)}

\* raw boxes of the model: class, confidence (percent), corners in tenths of a pixel
RawBoxes ==
    {[cls |-> "person", conf |-> 90, xyxy |-> <<105, 108, 309, 502>>],
     [cls |-> "car", conf |-> 40, xyxy |-> <<0, 0, 400, 300>>],
     [cls |-> "airplane", conf |-> 75, xyxy |-> <<0, 0, 200, 250>>],
     [cls |-> "airplane", conf |-> 75, xyxy |-> <<0, 0, 219, 259>>],
     [cls |-> "airplane", conf |-> 75, xyxy |-> <<0, 0, 210, 250>>]}

\* what the model call does: returns raw boxes, or throws
Runs ==
    {[status |-> "boxes", boxes |-> b] :
        b \in UNION {[1..n -> RawBoxes] : n \in 0..MaxBoxes}}
    \cup {[status |-> "throws", boxes |-> <<>>]}

InitDetector ==
    /\ InitAv /\ InitAl /\ InitAp /\ InitAn /\ InitCc /\ InitPa /\ InitCm /\ InitS3
    /\ detector \in Detectors
    /\ lastDetect = NoDetect

\* detector.detect(image, camera_id)
Detect ==
    /\ \E image \in Frames, run \in Runs :
          LET d == detect(detector, image, run)
          IN /\ detector' = [detector EXCEPT !.result_cache = @ \/ d.cached]
             /\ lastDetect' = [op |-> "detect", before |-> image, run |-> run,
                               after |-> d.image, result |-> d.result,
                               same_object |-> d.same_object, cause |-> d.cause]
    /\ UNCHANGED <<avVars, alVars, apVars, anVars, ccVars, paVars, cmVars, s3Vars>>

NextDetector == Detect

SpecDetector == InitDetector /\ [][NextDetector]_vars

\* _check_anomalies on detection sets around the thresholds
RECURSIVE Repeat(_, _)
Repeat(x, n) == IF n = 0 THEN <<>> ELSE <<x>> \o Repeat(x, n - 1)

VehicleOrder == <<"car", "truck", "bus", "motorcycle">>

PersonCounts == {0, MaxPersons - 2, MaxPersons - 1, MaxPersons}

VehicleCounts == {0, MaxVehicles - 2, MaxVehicles - 1, MaxVehicles}

\* airplane boxes on a 100 x 100 frame: exactly 5% of it, and just above
PlaneBoxes == {<<>>, <<Detection("airplane", 75, <<0, 0, 20, 25>>)>>,
               <<Detection("airplane", 75, <<0, 0, 21, 25>>)>>}

OtherBoxes == {<<>>, <<Detection("boat", 60, <<0, 0, 90, 90>>)>>}

DetectionSets ==
    {Repeat(Detection("person", 90, <<0, 0, 10, 20>>), p)
       \o [i \in 1..v |-> Detection(VehicleOrder[(i % 4) + 1], 80, <<0, 0, 10, 10>>)]
       \o plane \o other :
     p \in PersonCounts, v \in VehicleCounts, plane \in PlaneBoxes, other \in OtherBoxes}

InitCheck ==
    /\ InitAv /\ InitAl /\ InitAp /\ InitAn /\ InitCc /\ InitPa /\ InitCm /\ InitS3
    /\ detector \in Detectors
    /\ \E ds \in DetectionSets :
          lastDetect = [op |-> "input", detections |-> ds, img_size |-> <<100, 100>>]

CheckAnomalies ==
    /\ lastDetect.op = "input"
    /\ LET c == _check_anomalies(lastDetect.detections, lastDetect.img_size)
       IN lastDetect' = [op |-> "checked", detections |-> lastDetect.detections,
                         img_size |-> lastDetect.img_size,
                         raised |-> c.raised, out |-> c.anomalies]
    /\ UNCHANGED <<detector, avVars, alVars, apVars, anVars, ccVars, paVars, cmVars, s3Vars>>

NextCheck == CheckAnomalies

SpecCheck == InitCheck /\ [][NextCheck]_vars

-----------------------------------------------------------------------------
(* Properties of the detector *)

Ready == detector.is_loaded /\ detector.model # "none"

PassthroughShaped(r) ==
    /\ r.detections = <<>>
    /\ r.anomalies = <<>>
    /\ r.inference_ms = "zero"
    /\ ~r.is_live

\* C12: whenever the detector is not Ready or the inference step throws,
\* detect returns a passthrough DetectionResult: zero detections, no
\* anomalies, inference_ms 0 and is_live = false.
C12_PassthroughOnFailure ==
    (/\ lastDetect.op = "detect"
     /\ (~Ready \/ lastDetect.run.status = "throws" \/ lastDetect.cause # "none"))
    => PassthroughShaped(lastDetect.result)

\* C12 witness: a loaded detector whose inference step threw
C12_Witness ==
    /\ lastDetect.op = "detect"
    /\ Ready
    /\ lastDetect.run.status = "throws"
    /\ PassthroughShaped(lastDetect.result)

\* C13: detect never mutates the caller's image: in every outcome the
\* drawing is done on a copy and the original is unchanged after the call.
C13_CallerImageUntouched ==
    lastDetect.op = "detect" =>
        /\ lastDetect.after = lastDetect.before
        /\ ~lastDetect.same_object

\* C14: when the detector is Ready and the model's inference call succeeds,
\* detect returns a live DetectionResult with one Detection per raw box and
\* the derived anomalies.
C14_LiveWhenReady ==
    (/\ lastDetect.op = "detect"
     /\ Ready
     /\ lastDetect.run.status = "boxes")
    => /\ lastDetect.result.is_live
       /\ Len(lastDetect.result.detections) = Len(lastDetect.run.boxes)
       /\ \A i \in 1..Len(lastDetect.run.boxes) :
             lastDetect.result.detections[i].class_name = lastDetect.run.boxes[i].cls

\* C15: the anomaly derivation yields a crowd anomaly iff the person count
\* is at least the crowd threshold, a vehicle-cluster anomaly iff the count
\* of car, truck, bus and motorcycle is at least the vehicle threshold, a
\* large-aircraft anomaly per airplane whose box covers strictly more than
\* 5% of the frame, and nothing else.
C15_AnomalyThresholds ==
    LET ds == lastDetect.detections
        persons == Cardinality({i \in 1..Len(ds) : ds[i].class_name = "person"})
        vehicles == Cardinality({i \in 1..Len(ds) :
                        ds[i].class_name \in {"car", "truck", "bus", "motorcycle"}})
        big == Cardinality({i \in 1..Len(ds) :
                   /\ ds[i].class_name = "airplane"
                   /\ 100 * (ds[i].bbox[3] - ds[i].bbox[1]) * (ds[i].bbox[4] - ds[i].bbox[2])
                         > 5 * lastDetect.img_size[1] * lastDetect.img_size[2]})
        Has(kind) == \E k \in 1..Len(lastDetect.out) : lastDetect.out[k].kind = kind
        N(kind) == Cardinality({k \in 1..Len(lastDetect.out) : lastDetect.out[k].kind = kind})
    IN lastDetect.op = "checked" =>
          /\ ~lastDetect.raised
          /\ Has("crowd") <=> persons >= Settings.ANOMALY_PERSON_CLUSTER_MIN
          /\ Has("vehicles") <=> vehicles >= Settings.ANOMALY_VEHICLE_CLUSTER_MIN
          /\ N("aircraft") = big
          /\ Len(lastDetect.out) = N("crowd") + N("vehicles") + N("aircraft")

-----------------------------------------------------------------------------
(* State machine: one SafeTTLCache(maxsize, ttl) instance and its clock *)

CacheValues == {"a", "b"}

\* the keys a set(k) drops for capacity: held and unexpired before, gone after
EvictedBy(before, after, k, t) ==
    {j \in CacheKeys :
        /\ j # k
        /\ CacheHas(before, j, t)
        /\ ~CacheHas(after, j, t)}

CacheSetOp ==
    /\ \E k \in CacheKeys, v \in CacheValues :
          LET after == CacheSet(lastCache.cache, CacheTestMaxsize, CacheTestTtl, k, v, now)
          IN lastCache' =
                [op |-> "set", key |-> k, time |-> now, hit |-> FALSE, value |-> <<>>, cache |-> after,
                 stored |-> [lastCache.stored EXCEPT ![k] = <<[at |-> now, value |-> v]>>],
                 evicted |-> (lastCache.evicted \ {k})
                                \cup EvictedBy(lastCache.cache, after, k, now)]
    /\ UNCHANGED <<avVars, alVars, apVars, anVars, dtVars, paVars, cmVars, s3Vars>>

CacheGetOp ==
    /\ \E k \in CacheKeys :
          LET g == CacheGet(lastCache.cache, k, now)
          IN lastCache' = [lastCache EXCEPT !.op = "get", !.key = k, !.time = now, !.hit = g.hit,
                                            !.value = g.value, !.cache = g.cache]
    /\ UNCHANGED <<avVars, alVars, apVars, anVars, dtVars, paVars, cmVars, s3Vars>>

CacheInvalidateOp ==
    /\ \E k \in CacheKeys :
          lastCache' = [lastCache EXCEPT !.op = "invalidate", !.key = k, !.time = now,
                                         !.hit = FALSE,
                                         !.value = <<>>,
                                         !.cache = CacheInvalidate(@, k),
                                         !.stored[k] = <<>>]
    /\ UNCHANGED <<avVars, alVars, apVars, anVars, dtVars, paVars, cmVars, s3Vars>>

CacheClearOp ==
    /\ lastCache' = [NoCacheOp EXCEPT !.op = "clear", !.time = now, !.cache = CacheClear(lastCache.cache)]
    /\ UNCHANGED <<avVars, alVars, apVars, anVars, dtVars, paVars, cmVars, s3Vars>>

\* the clock advances between calls
CacheTick ==
    /\ now < MaxCacheTime
    /\ now' = now + 1
    /\ UNCHANGED <<FORCE_MOCK_DATA, FR24_API_TOKEN, aviation_cache, lastFetch>>
    /\ UNCHANGED <<alVars, apVars, anVars, exVars>>

NextCache == CacheSetOp \/ CacheGetOp \/ CacheInvalidateOp \/ CacheClearOp \/ CacheTick

InitCache == Init /\ ~FORCE_MOCK_DATA /\ ~FR24_API_TOKEN

SpecCache == InitCache /\ [][NextCache]_vars

-----------------------------------------------------------------------------
(* Properties of the TTL cache *)

Stored(k) == lastCache.stored[k]

\* get never returns anything but the value last set for the key, and never
\* one as old as ttl; after T + ttl the key is absent; so is an invalidated or
\* cleared key
CacheNeverStale ==
    lastCache.op = "get" =>
        LET k == lastCache.key
        IN /\ lastCache.hit =>
                /\ Stored(k) # <<>>
                /\ lastCache.value = Stored(k)[1].value
                /\ lastCache.time < Stored(k)[1].at + CacheTestTtl
           /\ (Stored(k) # <<>> /\ lastCache.time > Stored(k)[1].at + CacheTestTtl) => ~lastCache.hit
           /\ Stored(k) = <<>> => ~lastCache.hit

\* C16 as stated: a value stored at time T is returned by get at every time
\* before T + ttl and is absent at every time after T + ttl, with no purge
\* step; get never returns a value older than ttl; invalidate and clear make
\* the key absent at once.
C16_TtlWindow ==
    /\ CacheNeverStale
    /\ lastCache.op = "get" =>
          LET k == lastCache.key
          IN (Stored(k) # <<>> /\ lastCache.time < Stored(k)[1].at + CacheTestTtl) =>
                (lastCache.hit /\ lastCache.value = Stored(k)[1].value)

\* C16 amended: the same, for a key that has not been dropped for capacity
\* since it was stored.
C16_TtlWindowUnlessEvicted ==
    /\ CacheNeverStale
    /\ lastCache.op = "get" =>
          LET k == lastCache.key
          IN (/\ Stored(k) # <<>>
              /\ lastCache.time < Stored(k)[1].at + CacheTestTtl
              /\ k \notin lastCache.evicted) =>
                (lastCache.hit /\ lastCache.value = Stored(k)[1].value)

\* C16 witness: a get one tick before expiry returns the value set earlier
C16_Witness ==
    /\ lastCache.op = "get"
    /\ lastCache.hit
    /\ Stored(lastCache.key) # <<>>
    /\ lastCache.time = Stored(lastCache.key)[1].at + CacheTestTtl - 1
    /\ lastCache.evicted # {}

-----------------------------------------------------------------------------
(* One provider response through its parser and fetch_aircraft's conversion *)

Providers == {"fr24", "opensky", "adsbfi"}

ParseKinds == Kinds \cup {"far"}

ParseBodies == UNION {[1..n -> [kind : ParseKinds]] : n \in 0..MaxParseBatch}

\* what a provider's step makes of an HTTP 200 response with this body:
\* served says the call returns this provider's list, aircraft is that list
\* as fetch_aircraft hands it on
Serve(provider, body) ==
    LET resp == [status |-> "ok", body |-> body]
        fr == fetch_fr24(TRUE, resp)
        os == OpenSkyAircraft(body)
        ad == AdsbAircraft(body)
    IN IF provider = "fr24"
       THEN [served |-> Fr24Accepted(fr),
             aircraft |-> IF Fr24Accepted(fr) THEN AircraftList(fr) ELSE <<>>]
       ELSE IF provider = "opensky"
       THEN [served |-> OpenSkyOk(resp),
             aircraft |-> IF OpenSkyOk(resp) THEN AircraftList(os) ELSE <<>>]
       ELSE [served |-> AdsbOk(resp) /\ AdsbAccepted(ad),
             aircraft |-> IF AdsbOk(resp) /\ AdsbAccepted(ad) THEN AircraftList(ad) ELSE <<>>]

InitParse == Init /\ ~FORCE_MOCK_DATA /\ ~FR24_API_TOKEN

NewResponse ==
    /\ parse.op \in {"none", "parsed"}
    /\ \E provider \in Providers, body \in ParseBodies :
          parse' = [NoParse EXCEPT !.op = "received", !.provider = provider, !.body = body]
    /\ UNCHANGED <<avVars, alVars, apVars, anVars, dtVars, ccVars, cmVars, s3Vars>>

ParseResponse ==
    /\ parse.op = "received"
    /\ LET r == Serve(parse.provider, parse.body)
       IN parse' = [parse EXCEPT !.op = "parsed", !.served = r.served,
                                 !.aircraft = r.aircraft]
    /\ UNCHANGED <<avVars, alVars, apVars, anVars, dtVars, ccVars, cmVars, s3Vars>>

NextParse == NewResponse \/ ParseResponse

SpecParse == InitParse /\ [][NextParse]_vars

-----------------------------------------------------------------------------
(* Properties of parsing *)

Unparseable(raw) == raw.kind = "bad"

Parseable(body) == SelectSeq(body, LAMBDA raw : ~Unparseable(raw))

\* C17: when a live provider's batch contains a record that cannot be
\* parsed, only that record is dropped: the provider serves exactly what it
\* would serve for the batch without that record, and the fetch does not
\* fall through to the next source because of it.
C17_BadRecordDroppedAlone ==
    (/\ parse.op = "parsed"
     /\ \E i \in 1..Len(parse.body) : Unparseable(parse.body[i]))
    => LET rest == Serve(parse.provider, Parseable(parse.body))
       IN /\ parse.served = rest.served
          /\ Len(parse.aircraft) = Len(rest.aircraft)

\* C18: every aircraft fetch_aircraft returns from a live source
\* (is_mock = false) has on_ground = false, whichever provider supplied it.
C18_LiveAircraftAirborne ==
    Done =>
        \A i \in 1..Len(lastFetch.aircraft) :
            ~lastFetch.aircraft[i].is_mock => ~lastFetch.aircraft[i].on_ground

\* C19: every returned aircraft has -90 <= latitude <= 90 and
\* -180 <= longitude <= 180, and a provider record whose position is missing
\* or out of range never reaches the caller.
C19_PositionsInRange ==
    parse.op = "parsed" =>
        /\ \A i \in 1..Len(parse.aircraft) :
              /\ -90 <= parse.aircraft[i].latitude /\ parse.aircraft[i].latitude <= 90
              /\ -180 <= parse.aircraft[i].longitude /\ parse.aircraft[i].longitude <= 180
        /\ \A i \in 1..Len(parse.aircraft) :
              parse.body[parse.aircraft[i].icao24].kind \notin {"nopos", "far"}

-----------------------------------------------------------------------------
(* Camera frames (data_sources/cameras.py) *)

\* settings.PUBLIC_CAMERAS and custom cameras: odd ids poll a still image,
\* even ids grab from an MJPEG stream
Camera(id) ==
    [id |-> id, name |-> "camera", type |-> IF id % 2 = 1 THEN "static_jpeg" ELSE "mjpeg"]

ContentTypes == {"image/jpeg", "image/png", "application/jpeg", "text/html"}

\* "image" in content_type, "jpeg" in content_type
HasImage(ct) == ct \in {"image/jpeg", "image/png"}
HasJpeg(ct) == ct \in {"image/jpeg", "application/jpeg"}

\* _fetch_static_frame: [raised, img]; img is "feed" for a decoded RGB image
_fetch_static_frame(resp) ==
    IF resp.status # "ok" THEN [raised |-> TRUE, img |-> "null"]
    ELSE IF ~HasImage(resp.content_type) /\ ~HasJpeg(resp.content_type)
    THEN [raised |-> TRUE, img |-> "null"]
    ELSE IF ~resp.decodable THEN [raised |-> TRUE, img |-> "null"]
    ELSE [raised |-> FALSE, img |-> "feed"]

Bytes == {"FF", "D8", "D9"}

\* bytes.find(<<b1, b2>>, from): the first index at or after from, 0 for -1
Find(buffer, b1, b2, from) ==
    LET hits == {i \in from..(Len(buffer) - 1) : buffer[i] = b1 /\ buffer[i + 1] = b2}
    IN IF hits = {} THEN 0 ELSE CHOOSE i \in hits : \A j \in hits : i <= j

\* variant for C21: the slice stops short of the end marker
JpegDataShort(buffer, start, end) == SubSeq(buffer, start, end - 1)

\* jpeg_data = buffer[start:end + 2] (indices from 1 here)
JpegData(buffer, start, end) == SubSeq(buffer, start, end + 1)

\* variant for C28: no byte ceiling
OverCeilingNever(bytes_read) == FALSE

\* bytes_read > max_bytes
OverCeiling(bytes_read) == bytes_read > MaxMjpegBytes

\* the chunk loop of _fetch_mjpeg_frame; read counts the bytes taken from the
\* stream when the loop is left
\* one pass of the loop body: [kind, data, buffer, read]
ScanChunk(buffer, bytes_read, chunk) ==
    LET buf == buffer \o chunk
        read == bytes_read + Len(chunk)
        start == Find(buf, "FF", "D8", 1)
        end == IF start # 0 THEN Find(buf, "FF", "D9", start + 2) ELSE 0
        out(kind, data) == [kind |-> kind, data |-> data, buffer |-> buf, read |-> read]
    IN IF start # 0 /\ end # 0 THEN out("frame", JpegData(buf, start, end))
       ELSE IF OverCeiling(read) THEN out("too_long", <<>>)
       ELSE out("more", <<>>)

RECURSIVE ScanMjpeg(_, _, _)
ScanMjpeg(chunks, buffer, bytes_read) ==
    IF chunks = <<>> THEN [kind |-> "ended", data |-> <<>>, read |-> bytes_read]
    ELSE LET step == ScanChunk(buffer, bytes_read, Head(chunks))
         IN IF step.kind = "more" THEN ScanMjpeg(Tail(chunks), step.buffer, step.read)
            ELSE [kind |-> step.kind, data |-> step.data, read |-> step.read]

\* _fetch_mjpeg_frame: [raised, img, data, read]; data is what Image.open is given
_fetch_mjpeg_frame(resp) ==
    LET scan == ScanMjpeg(resp.chunks, <<>>, 0)
        out(raised, img) ==
            [raised |-> raised, img |-> img, data |-> scan.data, read |-> scan.read]
    IN IF resp.status # "ok"
       THEN [raised |-> TRUE, img |-> "null", data |-> <<>>, read |-> 0]
       ELSE IF scan.kind = "too_long" THEN out(TRUE, "null")
       ELSE IF scan.kind = "ended" THEN out(FALSE, "null")
       ELSE IF ~resp.decodable THEN out(TRUE, "null")
       ELSE out(FALSE, "feed")

\* variant for C20: the synthetic frame is missing
_generate_mock_frame_none(cam) == "null"

\* _generate_mock_frame: a synthetic RGB frame
_generate_mock_frame(cam) == "mock"

\* the except branch of fetch_camera_frame: the camera's status after a failure
FailedStatus(st) ==
    IF st = <<>> THEN <<[online |-> FALSE, fail_count |-> 1]>>
    ELSE <<[online |-> FALSE, fail_count |-> st[1].fail_count + 1]>>

\* fetch_camera_frame around what the fetcher gave (got is [raised, img]):
\* [frame, is_live, status, mock_state, logs]
ReturnFrame(cam, force, status, mock_state, got) ==
    LET failed == FailedStatus(status[cam.id])
        mock == [frame |-> _generate_mock_frame(cam), is_live |-> FALSE,
                 status |-> status, mock_state |-> mock_state \cup {cam.id},
                 logs |-> <<>>]
    IN IF force THEN mock
       ELSE IF got.raised
       THEN [mock EXCEPT !.status = [status EXCEPT ![cam.id] = failed],
                         !.logs = IF failed[1].fail_count % 5 = 1
                                  THEN <<"warning">> ELSE <<>>]
       ELSE IF got.img # "null"
       THEN [frame |-> got.img, is_live |-> TRUE,
             status |-> [status EXCEPT ![cam.id] = <<[online |-> TRUE, fail_count |-> 0]>>],
             mock_state |-> mock_state, logs |-> <<>>]
       ELSE mock

\* fetch_camera_frame(camera) against a feed that answers resp
fetch_camera_frame(cam, force, status, mock_state, resp) ==
    ReturnFrame(cam, force, status, mock_state,
                IF cam.type = "mjpeg" THEN _fetch_mjpeg_frame(resp)
                ELSE _fetch_static_frame(resp))

\* what a feed can answer
Chunks == UNION {[1..n -> Bytes] : n \in 1..MaxChunkBytes}

Streams(max_chunks) == UNION {[1..n -> Chunks] : n \in 0..max_chunks}

StaticResponses ==
    [status : {"ok"}, content_type : ContentTypes, decodable : BOOLEAN]
    \cup {[status |-> st, content_type |-> "", decodable |-> FALSE] :
            st \in {"http_error", "timeout"}}

MjpegResponses ==
    {[status |-> "ok", chunks |-> ch, decodable |-> d] :
        ch \in Streams(MaxChunks), d \in BOOLEAN}
    \cup {[status |-> st, chunks |-> <<>>, decodable |-> FALSE] :
            st \in {"http_error", "timeout"}}

FeedResponses(cam) == IF cam.type = "mjpeg" THEN MjpegResponses ELSE StaticResponses

FailsOf(st) == IF st = <<>> THEN 0 ELSE st[1].fail_count

InitCamera == Init /\ ~FR24_API_TOKEN

\* one fetch_camera_frame call for a camera of ids; streak counts the
\* consecutive calls for that camera that did not return a live frame
FetchCamera(ids, max_fails) ==
    /\ \E id \in ids :
          /\ camera.streak[id] < max_fails
          /\ \E resp \in FeedResponses(Camera(id)) :
                LET r == fetch_camera_frame(Camera(id), FORCE_MOCK_DATA, camera.status,
                                            camera.mock_state, resp)
                    got == IF Camera(id).type = "mjpeg" /\ ~FORCE_MOCK_DATA
                           THEN _fetch_mjpeg_frame(resp)
                           ELSE [data |-> <<>>, read |-> 0]
                IN camera' = [status |-> r.status, mock_state |-> r.mock_state,
                              streak |-> [camera.streak EXCEPT
                                             ![id] = IF r.is_live THEN 0 ELSE @ + 1],
                              op |-> "fetch", cam |-> id, response |-> resp,
                              frame |-> r.frame, is_live |-> r.is_live, logs |-> r.logs,
                              raised |-> FALSE, jpeg_data |-> got.data,
                              bytes_read |-> got.read, buffer |-> <<>>]
    /\ UNCHANGED <<avVars, alVars, apVars, anVars, dtVars, ccVars, paVars, s3Vars>>

FetchCameraFrame == FetchCamera(CamIds, MaxFails)

NextCamera == FetchCameraFrame

SpecCamera == InitCamera /\ [][NextCamera]_vars

\* a run of fetches of one still-image camera
FetchOneCamera == FetchCamera({1}, MaxRun)

NextCameraRun == FetchOneCamera

SpecCameraRun == InitCamera /\ [][NextCameraRun]_vars

\* _fetch_mjpeg_frame on its own, on longer streams
GrabMjpegFrame ==
    /\ camera.op = "none"
    /\ \E ch \in Streams(MaxGrabChunks), d \in BOOLEAN :
          LET resp == [status |-> "ok", chunks |-> ch, decodable |-> d]
              got == _fetch_mjpeg_frame(resp)
          IN camera' = [camera EXCEPT !.op = "grab", !.response = resp,
                                      !.frame = got.img, !.raised = got.raised,
                                      !.jpeg_data = got.data, !.bytes_read = got.read]
    /\ UNCHANGED <<avVars, alVars, apVars, anVars, dtVars, ccVars, paVars, s3Vars>>

NextMjpeg == GrabMjpegFrame

InitMjpeg == Init /\ ~FORCE_MOCK_DATA /\ ~FR24_API_TOKEN

SpecMjpeg == InitMjpeg /\ [][NextMjpeg]_vars

\* one fetch_camera_frame call for an MJPEG camera, the stream arriving chunk by
\* chunk: camera.op is "reading" while _fetch_mjpeg_frame is in its loop
MjpegCam == 2

\* fetch_camera_frame returns
StreamReturn(feed, got, jpeg_data, buffer, bytes_read) ==
    LET r == ReturnFrame(Camera(MjpegCam), FORCE_MOCK_DATA, camera.status,
                         camera.mock_state, got)
    IN camera' = [status |-> r.status, mock_state |-> r.mock_state,
                  streak |-> [camera.streak EXCEPT
                                 ![MjpegCam] = IF r.is_live THEN 0 ELSE @ + 1],
                  op |-> "fetch", cam |-> MjpegCam, response |-> feed,
                  frame |-> r.frame, is_live |-> r.is_live, logs |-> r.logs,
                  raised |-> FALSE, jpeg_data |-> jpeg_data,
                  bytes_read |-> bytes_read, buffer |-> buffer]

Raised == [raised |-> TRUE, img |-> "null"]

Feed(status, ended) == [status |-> status, ended |-> ended]

\* the force-mock test, then requests.get(url, stream=True) and raise_for_status
StreamOpen ==
    /\ camera.op = "none"
    /\ IF FORCE_MOCK_DATA
       THEN StreamReturn(Feed("none", FALSE), Raised, <<>>, <<>>, 0)
       ELSE \E st \in {"ok", "http_error", "timeout"} :
               IF st = "ok"
               THEN camera' = [camera EXCEPT !.op = "reading", !.cam = MjpegCam,
                                             !.response = Feed("ok", FALSE)]
               ELSE StreamReturn(Feed(st, FALSE), Raised, <<>>, <<>>, 0)
    /\ UNCHANGED <<avVars, alVars, apVars, anVars, dtVars, ccVars, paVars, s3Vars>>

\* the stream delivers a chunk: one pass of the loop body
StreamChunk ==
    /\ camera.op = "reading"
    /\ \E chunk \in Chunks, decodable \in BOOLEAN :
          LET step == ScanChunk(camera.buffer, camera.bytes_read, chunk)
          IN IF step.kind = "more"
             THEN camera' = [camera EXCEPT !.buffer = step.buffer,
                                           !.bytes_read = step.read]
             ELSE StreamReturn(Feed("ok", FALSE),
                               IF step.kind = "frame" /\ decodable
                               THEN [raised |-> FALSE, img |-> "feed"] ELSE Raised,
                               step.data, step.buffer, step.read)
    /\ UNCHANGED <<avVars, alVars, apVars, anVars, dtVars, ccVars, paVars, s3Vars>>

\* the stream ends: the loop is left and _fetch_mjpeg_frame returns None
StreamEnds ==
    /\ camera.op = "reading"
    /\ StreamReturn(Feed("ok", TRUE), [raised |-> FALSE, img |-> "null"], <<>>,
                    camera.buffer, camera.bytes_read)
    /\ UNCHANGED <<avVars, alVars, apVars, anVars, dtVars, ccVars, paVars, s3Vars>>

\* no chunk within CAMERA_TIMEOUT, or the connection breaks: iter_content raises
StreamBreaks ==
    /\ camera.op = "reading"
    /\ StreamReturn(Feed("timeout", FALSE), Raised, <<>>, camera.buffer, camera.bytes_read)
    /\ UNCHANGED <<avVars, alVars, apVars, anVars, dtVars, ccVars, paVars, s3Vars>>

NextStream == StreamOpen \/ StreamChunk \/ StreamEnds \/ StreamBreaks

SpecStream == InitCamera /\ [][NextStream]_vars

\* a call that has begun goes on: the feed delivers, ends or times out
SpecStreamLive == SpecStream /\ WF_vars(NextStream)

-----------------------------------------------------------------------------
(* Properties of the camera fetcher *)

\* the response carries a frame: a success status and a body that decodes,
\* with an image content type (still image) or a complete frame (stream)
RECURSIVE Concat(_)
Concat(chunks) == IF chunks = <<>> THEN <<>> ELSE Head(chunks) \o Concat(Tail(chunks))

CompleteFrame(chunks) ==
    LET all == Concat(chunks)
    IN \E i, j \in 1..Len(all) :
          /\ i + 1 < j /\ j < Len(all)
          /\ all[i] = "FF" /\ all[i + 1] = "D8"
          /\ all[j] = "FF" /\ all[j + 1] = "D9"

\* C20: fetch_camera_frame always returns a non-null frame with a liveness
\* flag; every failure (non-2xx status, wrong content type, decode error,
\* timeout, no complete MJPEG frame) and the force-mock flag give a synthetic
\* frame with is_live = false, and is_live = true only comes with a frame
\* decoded from the feed's response.
C20_FrameAlwaysReturned ==
    LET resp == camera.response
        cam == Camera(camera.cam)
        failure ==
            \/ resp.status # "ok"
            \/ ~resp.decodable
            \/ cam.type # "mjpeg" /\ resp.content_type = "text/html"
            \/ cam.type = "mjpeg" /\ ~CompleteFrame(resp.chunks)
    IN camera.op = "fetch" =>
          /\ camera.frame # "null"
          /\ (failure \/ FORCE_MOCK_DATA) => (camera.frame = "mock" /\ ~camera.is_live)
          /\ camera.is_live =>
                (camera.frame = "feed" /\ resp.status = "ok" /\ resp.decodable)

\* C20 witness: an MJPEG stream that ended before any complete frame
C20_Witness ==
    /\ camera.op = "fetch"
    /\ ~FORCE_MOCK_DATA
    /\ Camera(camera.cam).type = "mjpeg"
    /\ camera.response.status = "ok"
    /\ camera.response.chunks # <<>>
    /\ ~CompleteFrame(camera.response.chunks)
    /\ camera.frame = "mock"
    /\ ~camera.is_live

-----------------------------------------------------------------------------
(* Properties of the MJPEG frame grab *)

\* the buffers the chunk loop accumulates, one per chunk taken from the stream:
\* the loop goes on to chunk k only while the ceiling has not been passed
Buffer(chunks, k) == Concat(SubSeq(chunks, 1, k))

Accumulated(chunks) ==
    {k \in 1..Len(chunks) : \A m \in 1..(k - 1) : Len(Buffer(chunks, m)) <= MaxMjpegBytes}

StartMarkers(buffer) ==
    {i \in 1..(Len(buffer) - 1) : buffer[i] = "FF" /\ buffer[i + 1] = "D8"}

EndMarkers(buffer) ==
    {i \in 1..(Len(buffer) - 1) : buffer[i] = "FF" /\ buffer[i + 1] = "D9"}

\* a start marker followed later by an end marker
HasFrame(buffer) ==
    \E i \in StartMarkers(buffer), j \in EndMarkers(buffer) : i < j

Lowest(S) == CHOOSE i \in S : \A j \in S : i <= j

\* from the first start marker through the first end marker after it
FirstFrame(buffer) ==
    LET first == Lowest(StartMarkers(buffer))
        last == Lowest({j \in EndMarkers(buffer) : j > first})
    IN SubSeq(buffer, first, last + 1)

\* C21: once the accumulated MJPEG buffer holds a start marker 0xFFD8 followed
\* later by an end marker 0xFFD9, the bytes handed to the decoder are exactly
\* those from the first start marker through the first end marker after it,
\* both markers included and nothing before or after.
C21_ExactFrameRange ==
    camera.op = "grab" =>
        \A k \in Accumulated(camera.response.chunks) :
            LET buffer == Buffer(camera.response.chunks, k)
            IN (HasFrame(buffer) /\ \A m \in 1..(k - 1) :
                                        ~HasFrame(Buffer(camera.response.chunks, m)))
                  => camera.jpeg_data = FirstFrame(buffer)

\* C21 witness: a frame cut out of a buffer with bytes before the start marker
C21_Witness ==
    /\ camera.op = "grab"
    /\ camera.jpeg_data # <<>>
    /\ \E k \in 1..Len(camera.response.chunks) :
          LET buffer == Buffer(camera.response.chunks, k)
          IN /\ HasFrame(buffer)
             /\ Lowest(StartMarkers(buffer)) > 1
             /\ camera.jpeg_data = FirstFrame(buffer)

-----------------------------------------------------------------------------
(* Satellite imagery (data_sources/satellite.py) *)

\* variant for C22: the Content-Type test is left out
GibsRejectsNever(content_type) == FALSE

\* "image" not in content_type
GibsRejects(content_type) == ~HasImage(content_type)

\* _generate_mock_satellite: a synthetic RGB image
_generate_mock_satellite(request) == "mock"

\* fetch_gibs_image: [img, is_live, raised, alerted]; alerted says that the
\* except branch ran, which dispatches a WARNING alert
fetch_gibs_image(force, request, resp) ==
    LET mock(alerted) == [img |-> _generate_mock_satellite(request), is_live |-> FALSE,
                          raised |-> FALSE, alerted |-> alerted]
    IN IF force THEN mock(FALSE)
       ELSE IF resp.status # "ok" THEN mock(TRUE)
       ELSE IF GibsRejects(resp.content_type) THEN mock(FALSE)
       ELSE IF ~resp.decodable THEN mock(TRUE)
       ELSE [img |-> "feed", is_live |-> TRUE, raised |-> FALSE, alerted |-> FALSE]

WORLD == <<-180, -90, 180, 90>>

\* the regions table of fetch_region_image
NamedRegions ==
    [Global |-> <<-180, -90, 180, 90>>,
     NorthAmerica |-> <<-170, 15, -50, 80>>,
     Europe |-> <<-30, 30, 45, 75>>,
     AsiaPacific |-> <<60, -15, 180, 60>>,
     Africa |-> <<-25, -40, 60, 40>>,
     MiddleEast |-> <<25, 10, 75, 45>>,
     SouthAmerica |-> <<-85, -60, -30, 15>>,
     Arctic |-> <<-180, 60, 180, 90>>]

\* regions.get(region, (-180, -90, 180, 90))
RegionBBox(region) ==
    IF region \in DOMAIN NamedRegions THEN NamedRegions[region] ELSE WORLD

REGION_WIDTH == 800
MIN_HEIGHT == 200

\* the request fetch_region_image makes: ratio = lon_span / lat_span (2 when
\* lat_span is not positive), height = max(200, int(width / ratio)); for the
\* table's spans int(800 / (lon_span / lat_span)) is (800 * lat_span) \div lon_span
RegionRequest(region) ==
    LET bbox == RegionBBox(region)
        lon_span == bbox[3] - bbox[1]
        lat_span == bbox[4] - bbox[2]
        scaled == IF lat_span > 0 THEN (REGION_WIDTH * lat_span) \div lon_span
                  ELSE REGION_WIDTH \div 2
    IN [bbox |-> bbox, width |-> REGION_WIDTH, height |-> Max(MIN_HEIGHT, scaled)]

\* fetch_gibs_image's defaults: the whole world at 800 x 400
DefaultRequest == [bbox |-> WORLD, width |-> 800, height |-> 400]

GibsContentTypes == {"image/jpeg", "image/png", "application/jpeg", "text/xml"}

GibsResponses ==
    [status : {"ok"}, content_type : GibsContentTypes, decodable : BOOLEAN]
    \cup {[status |-> st, content_type |-> "", decodable |-> FALSE] :
            st \in {"http_error", "timeout"}}

Regions == DOMAIN NamedRegions \cup {"Atlantis"}

\* the alert the except branch of fetch_gibs_image dispatches
GibsAlert(alerted) ==
    LET d == dispatch_alert(in_memory_log, seq + 1, WARNING, "Satellite API",
                            "NASA GIBS unavailable", FALSE, FALSE,
                            [smtp_user |-> SMTP_USER, twilio_sid |-> TWILIO_ACCOUNT_SID],
                            "sent", "sent")
    IN IF alerted
       THEN /\ in_memory_log' = d.log
            /\ seq' = seq + 1
            /\ lastAlert' = [NoAlert EXCEPT !.op = "dispatch", !.id = d.record.id,
                                            !.events = d.events, !.returned = d.returned]
            /\ UNCHANGED <<SMTP_USER, TWILIO_ACCOUNT_SID, clearedAt>>
       ELSE UNCHANGED alVars

\* fetch_gibs_image(layer, date, bbox), the call of ui/satellite_view.py
FetchGibsImage ==
    /\ satellite.calls < MaxSatelliteCalls
    /\ \E resp \in GibsResponses :
          LET r == fetch_gibs_image(FORCE_MOCK_DATA, DefaultRequest, resp)
          IN /\ satellite' = [satellite EXCEPT
                                 !.calls = @ + 1, !.op = "gibs", !.region = "none",
                                 !.hit = FALSE, !.request = <<DefaultRequest>>,
                                 !.response = resp, !.img = r.img,
                                 !.is_live = r.is_live, !.raised = r.raised,
                                 !.alerted = r.alerted]
             /\ GibsAlert(r.alerted)
    /\ UNCHANGED <<avVars, apVars, anVars, dtVars, ccVars, paVars, cmVars,
                   loaders, writers, fetchers>>

StoreFresh(store, key) == key \in DOMAIN store /\ store[key].fresh

StorePut(store, key, entry) ==
    [k \in DOMAIN store \cup {key} |-> IF k = key THEN entry ELSE store[k]]

\* fetch_region_image(layer, date_str, region) through its cached(ttl) wrapper
FetchRegionImage ==
    /\ satellite.calls < MaxSatelliteCalls
    /\ \E region \in Regions :
          IF StoreFresh(satellite.store, region)
          THEN /\ satellite' = [satellite EXCEPT
                                   !.calls = @ + 1, !.op = "region", !.region = region,
                                   !.hit = TRUE, !.request = <<>>,
                                   !.response = [status |-> "none"],
                                   !.img = satellite.store[region].img,
                                   !.is_live = satellite.store[region].is_live,
                                   !.raised = FALSE, !.alerted = FALSE]
               /\ UNCHANGED alVars
          ELSE \E resp \in GibsResponses :
                  LET request == RegionRequest(region)
                      r == fetch_gibs_image(FORCE_MOCK_DATA, request, resp)
                  IN /\ satellite' = [satellite EXCEPT
                                         !.store = StorePut(@, region,
                                                     [img |-> r.img, is_live |-> r.is_live,
                                                      fresh |-> TRUE]),
                                         !.calls = @ + 1, !.op = "region",
                                         !.region = region, !.hit = FALSE,
                                         !.request = <<request>>, !.response = resp,
                                         !.img = r.img, !.is_live = r.is_live,
                                         !.raised = r.raised, !.alerted = r.alerted]
                     /\ GibsAlert(r.alerted)
    /\ UNCHANGED <<avVars, apVars, anVars, dtVars, ccVars, paVars, cmVars,
                   loaders, writers, fetchers>>

\* CACHE_TTL_SATELLITE seconds pass: every stored result is stale
SatelliteTtlElapses ==
    /\ \E k \in DOMAIN satellite.store : satellite.store[k].fresh
    /\ satellite' = [satellite EXCEPT
                        !.store = [k \in DOMAIN @ |-> [@[k] EXCEPT !.fresh = FALSE]]]
    /\ UNCHANGED <<avVars, alVars, apVars, anVars, dtVars, ccVars, paVars, cmVars,
                   loaders, writers, fetchers>>

NextSatellite == FetchGibsImage \/ FetchRegionImage \/ SatelliteTtlElapses

InitSatellite == Init /\ ~FR24_API_TOKEN

SpecSatellite == InitSatellite /\ [][NextSatellite]_vars

-----------------------------------------------------------------------------
(* Properties of the satellite fetcher *)

\* C22: fetch_gibs_image never raises; it reports is_live = true only for a
\* response with a success status, a Content-Type with an image marker and a
\* body that decodes; a 200 response with a non-image body, a non-2xx status,
\* a timeout or a decode error each give a synthetic image with is_live = false.
C22_LiveOnlyForImages ==
    LET resp == satellite.response
        good == /\ resp.status = "ok"
                /\ resp.content_type \in {"image/jpeg", "image/png"}
                /\ resp.decodable
    IN (satellite.op \in {"gibs", "region"} /\ ~satellite.hit) =>
          /\ ~satellite.raised
          /\ satellite.is_live => (good /\ satellite.img = "feed")
          /\ ~good => (satellite.img = "mock" /\ ~satellite.is_live)

\* C22 witness: a 200 answer with an XML body gave a synthetic image
C22_Witness ==
    /\ satellite.op = "gibs"
    /\ ~FORCE_MOCK_DATA
    /\ satellite.response.status = "ok"
    /\ satellite.response.content_type = "text/xml"
    /\ satellite.response.decodable
    /\ satellite.img = "mock"
    /\ ~satellite.is_live

\* width / h agrees with lon_span / lat_span as far as a whole number h can:
\* h is within one of width * lat_span / lon_span
AspectMatches(request) ==
    LET lon_span == request.bbox[3] - request.bbox[1]
        lat_span == request.bbox[4] - request.bbox[2]
    IN /\ request.height * lon_span <= request.width * lat_span + lon_span
       /\ request.height * lon_span >= request.width * lat_span - lon_span

\* C23: for every named region, fetch_region_image requests an image of width
\* 800 and a height h such that width / h equals lon_span / lat_span up to the
\* integer rounding of h.
C23_AspectFollowsBBox ==
    (satellite.op = "region" /\ ~satellite.hit /\ satellite.region \in DOMAIN NamedRegions) =>
        /\ satellite.request[1].width = 800
        /\ AspectMatches(satellite.request[1])

-----------------------------------------------------------------------------
(* Properties of the alert channels *)

\* what dispatch_alert did after appending the record
AfterAppend == SubSeq(lastAlert.events, 3, Len(lastAlert.events))

EmailEvents == SelectSeq(AfterAppend, LAMBDA e : e \in {"email:sent", "email:failed"})

SmsEvents == SelectSeq(AfterAppend, LAMBDA e : e \in {"sms:placeholder", "sms:failed"})

ErrorsLogged == SelectSeq(AfterAppend, LAMBDA e : e = "log:error")

\* C24: dispatch_alert attempts the email channel iff send_email was requested
\* and the email channel is configured, and the SMS channel iff send_sms was
\* requested and the SMS channel is configured; on a channel that is not
\* requested or not configured nothing is sent and no error is raised or
\* logged, and the record is still appended and returned.
C24_ChannelsOnlyWhenRequestedAndConfigured ==
    LET email == lastAlert.send_email /\ SMTP_USER
        text == lastAlert.send_sms /\ TWILIO_ACCOUNT_SID
    IN lastAlert.op = "dispatch" =>
          /\ (EmailEvents # <<>>) <=> email
          /\ (SmsEvents # <<>>) <=> text
          /\ (~email /\ ~text) => AfterAppend = <<>>
          /\ Len(ErrorsLogged) <= Len(EmailEvents) + Len(SmsEvents)
          /\ lastAlert.returned
          /\ in_memory_log # <<>>
          /\ in_memory_log[Len(in_memory_log)].id = lastAlert.id

\* C24 witness: email and SMS requested with neither channel configured
C24_Witness ==
    /\ lastAlert.op = "dispatch"
    /\ lastAlert.send_email /\ ~SMTP_USER
    /\ lastAlert.send_sms /\ ~TWILIO_ACCOUNT_SID
    /\ AfterAppend = <<>>
    /\ lastAlert.returned

-----------------------------------------------------------------------------
(* YOLODetector.get_instance called from several threads.  Each step is one *)
(* read or write of the shared class attributes.                             *)

\* variant for C25: the test under the lock always finds no instance
InnerCheckSkipped(instance) == TRUE

\* "if cls._instance is None" under the lock
InnerCheck(instance) == instance = 0

\* what _load_model can leave: ultralytics missing, the model constructor or
\* the warm-up failing, or the model loaded
LoadOutcomes ==
    {[model |-> "none", is_loaded |-> FALSE],
     [model |-> "yolo", is_loaded |-> FALSE],
     [model |-> "yolo", is_loaded |-> TRUE]}

ThreadStep(t, pc) == [loaders.th EXCEPT ![t].pc = pc]

LoaderUnchanged ==
    UNCHANGED <<avVars, alVars, apVars, anVars, dtVars, ccVars, paVars, cmVars,
                satellite, writers, fetchers>>

\* a thread calls get_instance
GetInstanceEnter(t) ==
    /\ loaders.th[t].pc \in {"idle", "done"}
    /\ loaders.th[t].calls < MaxLoaderCalls
    /\ loaders' = [loaders EXCEPT !.th[t].pc = "check1", !.th[t].calls = @ + 1,
                                  !.th[t].got = 0]
    /\ LoaderUnchanged

\* "if cls._instance is None" outside the lock
GetInstanceOuterCheck(t) ==
    /\ loaders.th[t].pc = "check1"
    /\ loaders' = [loaders EXCEPT
                      !.th = ThreadStep(t, IF loaders.instance = 0 THEN "acquire"
                                           ELSE "return")]
    /\ LoaderUnchanged

\* "with cls._lock"
GetInstanceLock(t) ==
    /\ loaders.th[t].pc = "acquire"
    /\ loaders.lock = 0
    /\ loaders' = [loaders EXCEPT !.lock = t, !.th = ThreadStep(t, "check2")]
    /\ LoaderUnchanged

GetInstanceInnerCheck(t) ==
    /\ loaders.th[t].pc = "check2"
    /\ loaders' = [loaders EXCEPT
                      !.th[t].pc = IF InnerCheck(loaders.instance) THEN "init"
                                   ELSE "release",
                      !.th[t].raced = @ \/ ~InnerCheck(loaders.instance)]
    /\ LoaderUnchanged

\* cls(): __init__ up to the call of _load_model
GetInstanceInit(t) ==
    /\ loaders.th[t].pc = "init"
    /\ loaders' = [loaders EXCEPT
                      !.objs = Append(@, [model |-> "none", is_loaded |-> FALSE,
                                          result_cache |-> FALSE, phase |-> "loading"]),
                      !.th[t].obj = Len(loaders.objs) + 1,
                      !.th[t].pc = "load"]
    /\ LoaderUnchanged

\* _load_model on the object under construction
GetInstanceLoad(t) ==
    /\ loaders.th[t].pc = "load"
    /\ \E out \in LoadOutcomes :
          loaders' = [loaders EXCEPT
                         !.objs[loaders.th[t].obj] =
                             [@ EXCEPT !.model = out.model, !.is_loaded = out.is_loaded,
                                       !.phase = IF out.is_loaded THEN "ready"
                                                 ELSE "load_failed"],
                         !.loads = @ + 1,
                         !.th[t].pc = "assign"]
    /\ LoaderUnchanged

\* "cls._instance = ..." once cls() has returned
GetInstanceAssign(t) ==
    /\ loaders.th[t].pc = "assign"
    /\ loaders' = [loaders EXCEPT !.instance = loaders.th[t].obj,
                                  !.th = ThreadStep(t, "release")]
    /\ LoaderUnchanged

\* the end of the with block
GetInstanceUnlock(t) ==
    /\ loaders.th[t].pc = "release"
    /\ loaders' = [loaders EXCEPT !.lock = 0, !.th = ThreadStep(t, "return")]
    /\ LoaderUnchanged

\* "return cls._instance"
GetInstanceReturn(t) ==
    /\ loaders.th[t].pc = "return"
    /\ loaders' = [loaders EXCEPT !.th[t].got = loaders.instance, !.th[t].pc = "done"]
    /\ LoaderUnchanged

\* detect on the instance a thread was given
InstanceDetect(t) ==
    /\ loaders.th[t].pc = "done"
    /\ loaders.th[t].got # 0
    /\ loaders.th[t].detects < MaxLoaderCalls
    /\ \E image \in Frames, run \in Runs :
          LET id == loaders.th[t].got
              d == detect(loaders.objs[id], image, run)
          IN loaders' = [loaders EXCEPT !.objs[id].result_cache = @ \/ d.cached,
                                        !.th[t].detects = @ + 1]
    /\ LoaderUnchanged

NextLoaders ==
    \E t \in LoaderThreads :
        \/ GetInstanceEnter(t)
        \/ GetInstanceOuterCheck(t)
        \/ GetInstanceLock(t)
        \/ GetInstanceInnerCheck(t)
        \/ GetInstanceInit(t)
        \/ GetInstanceLoad(t)
        \/ GetInstanceAssign(t)
        \/ GetInstanceUnlock(t)
        \/ GetInstanceReturn(t)
        \/ InstanceDetect(t)

InitLoaders == Init /\ ~FORCE_MOCK_DATA /\ ~FR24_API_TOKEN

SpecLoaders == InitLoaders /\ [][NextLoaders]_vars

-----------------------------------------------------------------------------
(* Properties of the detector singleton *)

Given == {loaders.th[t].got : t \in LoaderThreads} \ {0}

\* one construction, one load, one instance for every caller, fully constructed
SingleInstance ==
    /\ Len(loaders.objs) <= 1
    /\ loaders.loads <= 1
    /\ Cardinality(Given) <= 1
    /\ \A id \in Given :
          /\ id = loaders.instance
          /\ loaders.loads = 1
          /\ loaders.objs[id].phase \in {"ready", "load_failed"}

\* the load state of a constructed detector stays as it is
LoadStateFinal ==
    \A id \in DOMAIN loaders.objs :
        loaders.objs[id].phase # "loading" =>
            /\ id \in DOMAIN loaders'.objs
            /\ loaders'.objs[id].phase = loaders.objs[id].phase
            /\ loaders'.objs[id].is_loaded = loaders.objs[id].is_loaded
            /\ loaders'.objs[id].model = loaders.objs[id].model
            /\ loaders'.loads = loaders.loads

\* C25: across every interleaving of concurrent first calls to get_instance
\* the detector is constructed and loaded exactly once, every caller receives
\* the same fully constructed instance, and the load state never changes
\* afterwards: no later get_instance or detect call triggers another load.
C25_SingleInitialization == []SingleInstance /\ [][LoadStateFinal]_vars

\* C25 witness: two threads both saw no instance, and both were given the one
\* instance after a single load
C25_Witness ==
    /\ \A t \in LoaderThreads : loaders.th[t].pc = "done" /\ loaders.th[t].got = 1
    /\ \E t \in LoaderThreads : loaders.th[t].raced /\ loaders.th[t].calls = 1
    /\ loaders.loads = 1

-----------------------------------------------------------------------------
(* dispatch_alert called from several threads while get_recent_alerts reads. *)
(* alerts.py takes no lock: the append, the length test and the pop(0) are   *)
(* separate steps on the shared list.                                        *)

WriterUnchanged ==
    UNCHANGED <<avVars, apVars, anVars, dtVars, ccVars, paVars, cmVars,
                satellite, loaders, fetchers>>

\* the log after MAX_LOG_SIZE - 1 dispatches
InitWriters ==
    /\ InitAv /\ ~FORCE_MOCK_DATA /\ ~FR24_API_TOKEN
    /\ InitAp /\ InitAn /\ InitEx
    /\ SMTP_USER = FALSE
    /\ TWILIO_ACCOUNT_SID = FALSE
    /\ in_memory_log = [i \in 1..(MAX_LOG_SIZE - 1) |-> AlertRecord(i, LevelOf(i), "UI", "alert")]
    /\ seq = MAX_LOG_SIZE - 1
    /\ clearedAt = 0
    /\ lastAlert = NoAlert

\* record = AlertRecord(...) and the log_fn call
DispatchCreate(t) ==
    /\ writers.th[t].pc = "idle"
    /\ writers.th[t].calls < MaxWriterCalls
    /\ seq' = seq + 1
    /\ writers' = [writers EXCEPT !.th[t].pc = "append", !.th[t].id = seq + 1,
                                  !.th[t].calls = @ + 1]
    /\ UNCHANGED <<SMTP_USER, TWILIO_ACCOUNT_SID, in_memory_log, clearedAt, lastAlert>>
    /\ WriterUnchanged

\* _in_memory_log.append(record)
DispatchAppend(t) ==
    LET id == writers.th[t].id
    IN /\ writers.th[t].pc = "append"
       /\ in_memory_log' = Append(in_memory_log, AlertRecord(id, LevelOf(id), "UI", "alert"))
       /\ writers' = [writers EXCEPT !.th[t].pc = "len", !.appended = Append(@, id)]
       /\ UNCHANGED <<SMTP_USER, TWILIO_ACCOUNT_SID, seq, clearedAt, lastAlert>>
       /\ WriterUnchanged

\* if len(_in_memory_log) > MAX_LOG_SIZE
DispatchLen(t) ==
    /\ writers.th[t].pc = "len"
    /\ writers' = [writers EXCEPT
                      !.th[t].pc = IF Len(in_memory_log) > MAX_LOG_SIZE THEN "pop"
                                   ELSE "return"]
    /\ UNCHANGED alVars
    /\ WriterUnchanged

\* _in_memory_log.pop(0)
DispatchPop(t) ==
    /\ writers.th[t].pc = "pop"
    /\ in_memory_log' = Tail(in_memory_log)
    /\ writers' = [writers EXCEPT !.th[t].pc = "return"]
    /\ UNCHANGED <<SMTP_USER, TWILIO_ACCOUNT_SID, seq, clearedAt, lastAlert>>
    /\ WriterUnchanged

\* the channel guards (nothing requested) and "return record"
DispatchReturn(t) ==
    /\ writers.th[t].pc = "return"
    /\ writers' = [writers EXCEPT !.th[t].pc = "idle"]
    /\ lastAlert' = [NoAlert EXCEPT !.op = "dispatch", !.id = writers.th[t].id,
                                    !.returned = TRUE]
    /\ UNCHANGED <<SMTP_USER, TWILIO_ACCOUNT_SID, in_memory_log, seq, clearedAt>>
    /\ WriterUnchanged

NextWriters ==
    \/ \E t \in WriterThreads :
          \/ DispatchCreate(t)
          \/ DispatchAppend(t)
          \/ DispatchLen(t)
          \/ DispatchPop(t)
          \/ DispatchReturn(t)
    \/ GetRecentAlerts

SpecWriters == InitWriters /\ [][NextWriters]_vars

-----------------------------------------------------------------------------
(* Properties of concurrent dispatch *)

\* every id appended so far, the initial records first
EverAppended == [i \in 1..(MAX_LOG_SIZE - 1) |-> i] \o writers.appended

\* the log holds the newest of the records appended: only the oldest were dropped
OnlyOldestDropped ==
    LET n == Len(in_memory_log)
        all == EverAppended
    IN /\ n <= Len(all)
       /\ \A i \in 1..n : in_memory_log[i].id = all[Len(all) - n + i]

\* C26: with dispatch_alert called from several threads, append-then-trim
\* behaves as one atomic step: in no reachable state, including those a
\* concurrent get_recent_alerts sees, does the log hold more than MAX_LOG_SIZE
\* records, and only the oldest records are ever dropped.
C26_AppendTrimAtomic ==
    /\ Len(in_memory_log) <= MAX_LOG_SIZE
    /\ lastAlert.op = "get_recent" => Len(lastAlert.recent) <= MAX_LOG_SIZE
    /\ OnlyOldestDropped

-----------------------------------------------------------------------------
(* SafeTTLCache.get_or_fetch called from several threads.  get and set take *)
(* the lock for one access each; fetch_fn runs outside it.                 *)

NONE == "None"

\* what fetch_fn can return
FetchResults == CacheValues \cup {NONE}

\* variant for C27: get reads _cache without taking the lock
GetLocksNever == FALSE

\* SafeTTLCache.get runs under "with self._lock"
GetLocks == TRUE

FetcherUnchanged ==
    UNCHANGED <<avVars, alVars, apVars, anVars, dtVars, ccVars, paVars, cmVars,
                satellite, loaders, writers>>

\* the value written holds for key k at the cache's clock
Holds(k) ==
    /\ fetchers.written[k] # <<>>
    /\ fetchers.time < fetchers.written[k][1].at + CacheTestTtl

\* a thread calls get_or_fetch(key, fetch_fn)
GetOrFetchEnter(t) ==
    /\ fetchers.th[t].pc \in {"idle", "done"}
    /\ fetchers.th[t].calls < MaxFetcherCalls
    /\ \E k \in FetchKeys :
          fetchers' = [fetchers EXCEPT
                          !.th[t] = [NoFetcher EXCEPT
                                        !.pc = IF GetLocks THEN "get_lock" ELSE "get",
                                        !.key = k,
                                        !.calls = fetchers.th[t].calls + 1]]
    /\ FetcherUnchanged

\* get: "with self._lock"
GetOrFetchGetLock(t) ==
    /\ fetchers.th[t].pc = "get_lock"
    /\ fetchers.lock = 0
    /\ fetchers' = [fetchers EXCEPT !.lock = t, !.th[t].pc = "get"]
    /\ FetcherUnchanged

\* get: self._cache.get(key), and the end of the with block
GetOrFetchGet(t) ==
    LET k == fetchers.th[t].key
        g == CacheGet(fetchers.cache, k, fetchers.time)
    IN /\ fetchers.th[t].pc = "get"
       /\ fetchers' = [fetchers EXCEPT
                          !.cache = g.cache,
                          !.lock = IF @ = t THEN 0 ELSE @,
                          !.unguarded = @ \/ fetchers.lock # t,
                          !.th[t].seen = IF g.hit THEN <<g.value>> ELSE <<>>,
                          !.th[t].expect = IF Holds(k) THEN <<fetchers.written[k][1].value>>
                                           ELSE <<>>,
                          !.th[t].pc = IF g.hit /\ g.value # NONE THEN "return_cached"
                                       ELSE "fetch"]
       /\ FetcherUnchanged

\* "return cached"
GetOrFetchReturnCached(t) ==
    /\ fetchers.th[t].pc = "return_cached"
    /\ fetchers' = [fetchers EXCEPT !.th[t].ret = fetchers.th[t].seen[1],
                                    !.th[t].pc = "done"]
    /\ FetcherUnchanged

\* result = fetch_fn(*args, **kwargs), and "if result is not None"
GetOrFetchFetch(t) ==
    /\ fetchers.th[t].pc = "fetch"
    /\ \E v \in FetchResults :
          fetchers' = [fetchers EXCEPT !.th[t].result = v,
                                       !.th[t].fetched = @ + 1,
                                       !.th[t].pc = IF v # NONE THEN "set_lock"
                                                    ELSE "return"]
    /\ FetcherUnchanged

\* set: "with self._lock"
GetOrFetchSetLock(t) ==
    /\ fetchers.th[t].pc = "set_lock"
    /\ fetchers.lock = 0
    /\ fetchers' = [fetchers EXCEPT !.lock = t, !.th[t].pc = "set"]
    /\ FetcherUnchanged

\* set: self._cache[key] = value, and the end of the with block
GetOrFetchSet(t) ==
    LET k == fetchers.th[t].key
        v == fetchers.th[t].result
    IN /\ fetchers.th[t].pc = "set"
       /\ fetchers' = [fetchers EXCEPT
                          !.cache = CacheSet(@, CacheTestMaxsize, CacheTestTtl, k, v,
                                             fetchers.time),
                          !.lock = IF @ = t THEN 0 ELSE @,
                          !.unguarded = @ \/ fetchers.lock # t,
                          !.written[k] = <<[value |-> v, at |-> fetchers.time]>>,
                          !.th[t].pc = "return"]
       /\ FetcherUnchanged

\* "return result"
GetOrFetchReturn(t) ==
    /\ fetchers.th[t].pc = "return"
    /\ fetchers' = [fetchers EXCEPT !.th[t].ret = fetchers.th[t].result,
                                    !.th[t].pc = "done"]
    /\ FetcherUnchanged

\* the cache's clock advances
FetcherTick ==
    /\ fetchers.time < MaxFetcherTime
    /\ fetchers' = [fetchers EXCEPT !.time = @ + 1]
    /\ FetcherUnchanged

NextFetchers ==
    \/ \E t \in FetcherThreads :
          \/ GetOrFetchEnter(t)
          \/ GetOrFetchGetLock(t)
          \/ GetOrFetchGet(t)
          \/ GetOrFetchReturnCached(t)
          \/ GetOrFetchFetch(t)
          \/ GetOrFetchSetLock(t)
          \/ GetOrFetchSet(t)
          \/ GetOrFetchReturn(t)
    \/ FetcherTick

InitFetchers == Init /\ ~FORCE_MOCK_DATA /\ ~FR24_API_TOKEN

SpecFetchers == InitFetchers /\ [][NextFetchers]_vars

-----------------------------------------------------------------------------
(* Properties of get_or_fetch *)

\* a finished call: a value held when the thread looked is returned without a
\* fetch; otherwise fetch_fn ran once and its result is returned
CallDone(t) ==
    LET c == fetchers.th[t]
    IN c.pc = "done" =>
          IF c.expect # <<>>
          THEN c.fetched = 0 /\ c.ret = c.expect[1]
          ELSE c.fetched = 1 /\ c.ret = c.result

\* C27: get_or_fetch returns an unexpired cached value without calling
\* fetch_fn; otherwise it calls fetch_fn exactly once, stores the result under
\* the key (None is returned but not stored) and returns it.  When callers
\* race, each returns a value that was cached when it looked or its own fetch
\* result, every access to the store happens under the lock, and the cache
\* holds the value written last.
C27_GetOrFetch ==
    /\ \A t \in FetcherThreads : CallDone(t)
    /\ ~fetchers.unguarded
    /\ \A i \in 1..Len(fetchers.cache) : fetchers.cache[i].value # NONE
    /\ \A k \in FetchKeys :
          Holds(k) =>
              \E i \in 1..Len(fetchers.cache) :
                  /\ fetchers.cache[i].key = k
                  /\ fetchers.cache[i].value = fetchers.written[k][1].value
                  /\ fetchers.time < fetchers.cache[i].expires

\* C27 witness: two threads raced on one missing key, both fetched, they
\* wrote different values, and the cache holds the one written last
C27_Witness ==
    /\ \A t \in FetcherThreads :
          /\ fetchers.th[t].pc = "done"
          /\ fetchers.th[t].key = 1
          /\ fetchers.th[t].calls = 1
          /\ fetchers.th[t].fetched = 1
    /\ fetchers.th[1].ret = "a"
    /\ fetchers.th[2].ret = "b"
    /\ Holds(1)
    /\ fetchers.written[1][1].value = "b"
    /\ CacheGet(fetchers.cache, 1, fetchers.time).value = "b"

-----------------------------------------------------------------------------
(* Termination of the MJPEG frame grab *)

\* the loop reads on only below the ceiling and without a complete frame, so it
\* never takes more than one chunk past the ceiling; leaving it without a frame
\* gives a synthetic frame; passing the ceiling is reported as a failure, the
\* end of the stream is not
GrabBounded ==
    LET st == camera.status[MjpegCam]
    IN /\ camera.bytes_read <= MaxMjpegBytes + MaxChunkBytes
       /\ camera.op = "reading" =>
             (camera.bytes_read <= MaxMjpegBytes /\ ~HasFrame(camera.buffer))
       /\ (camera.op = "fetch" /\ ~HasFrame(camera.buffer)) =>
             (camera.frame = "mock" /\ ~camera.is_live)
       /\ (camera.op = "fetch" /\ ~HasFrame(camera.buffer)
              /\ camera.bytes_read > MaxMjpegBytes) =>
             (st # <<>> /\ ~st[1].online /\ st[1].fail_count = 1)
       /\ (camera.op = "fetch" /\ camera.response.ended) =>
             (camera.frame = "mock" /\ ~camera.is_live /\ camera.jpeg_data = <<>>)

\* C28: the MJPEG frame grab terminates on every stream: with no complete
\* frame found once more than the byte ceiling has been read it reports
\* failure instead of reading further, and when the stream ends earlier it
\* returns no frame; in both cases fetch_camera_frame returns a synthetic
\* frame with is_live = false.
C28_GrabTerminates == []GrabBounded /\ <>(camera.op = "fetch")

\* C28 witness: the call returned a synthetic frame after reading past the
\* ceiling without a complete frame
C28_Witness ==
    /\ camera.op = "fetch"
    /\ ~FORCE_MOCK_DATA
    /\ camera.bytes_read > MaxMjpegBytes
    /\ ~HasFrame(camera.buffer)
    /\ camera.response.status = "ok"
    /\ camera.frame = "mock"
    /\ ~camera.is_live

-----------------------------------------------------------------------------
(* Properties of the camera status *)

\* the recorded status of the camera just fetched tells the fetch history
StatusReflectsHistory ==
    LET st == camera.status[camera.cam]
    IN (camera.op = "fetch" /\ ~FORCE_MOCK_DATA) =>
          /\ st # <<>>
          /\ st[1].online <=> camera.is_live
          /\ st[1].fail_count = camera.streak[camera.cam]

\* a call leaves the status of the other cameras alone
OtherCamerasUntouched ==
    \A c \in CamIds : c # camera'.cam => camera'.status[c] = camera.status[c]

\* C29: with the force-mock flag unset, after every fetch_camera_frame call for
\* a camera its recorded status reflects the fetch history: online is true iff
\* the call returned a live frame, fail_count is the number of consecutive
\* non-live fetches since the last live frame (0 right after one), and the
\* status of every other camera is unchanged by the call.
C29_StatusReflectsHistory == []StatusReflectsHistory /\ [][OtherCamerasUntouched]_vars

\* C30: in a run of consecutive failed fetches of one camera the offline
\* warning is logged only on every 5th consecutive failure, when the count of
\* consecutive failures is a multiple of 5, and nothing is logged on the other
\* failures; a successful fetch restarts the count.
C30_WarningEveryFifthFailure ==
    LET failures == camera.streak[camera.cam]
    IN (camera.op = "fetch" /\ ~FORCE_MOCK_DATA) =>
          IF camera.is_live
          THEN camera.logs = <<>> /\ failures = 0
          ELSE (camera.logs = <<"warning">>) <=> (failures % 5 = 0)

====
